---- MODULE Spec2Model ----
(***************************************************************************)
(* AgriUstaad: spray-advisory classifier, execution-plan builder and the   *)
(* /analyze scan orchestrator, modelled from src/app.py,                   *)
(* src/services/weather_service.py, src/services/ai_service.py and         *)
(* src/models.py.                                                          *)
(*                                                                         *)
(* Representation of Python values                                         *)
(*   str    a sequence of code points, each a one-character string; a      *)
(*          code point outside ASCII is written "U+XXXX"                   *)
(*   value  a tagged record: PyStr(s), PyInt(n), PyFloat(n), PyNone        *)
(*   dict   a function from the set of keys that are present to values     *)
(*   float  a scaled integer: rain probability in thousandths, wind speed  *)
(*          in hundredths of km/h, coordinates and the other weather       *)
(*          numbers in tenths                                              *)
(***************************************************************************)
EXTENDS Integers, Sequences, FiniteSets, TLC

(***************************************************************************)
(* Bounds of the model.                                                    *)
(***************************************************************************)
\* classifier inputs are taken within this distance of each threshold
ThresholdMargin == 2

(***************************************************************************)
(* Python strings.                                                         *)
(***************************************************************************)
UpperToLower ==
    [c \in {"A","B","C","D","E","F","G","H","I","J","K","L","M",
            "N","O","P","Q","R","S","T","U","V","W","X","Y","Z"} |->
       CASE c = "A" -> "a" [] c = "B" -> "b" [] c = "C" -> "c" [] c = "D" -> "d"
         [] c = "E" -> "e" [] c = "F" -> "f" [] c = "G" -> "g" [] c = "H" -> "h"
         [] c = "I" -> "i" [] c = "J" -> "j" [] c = "K" -> "k" [] c = "L" -> "l"
         [] c = "M" -> "m" [] c = "N" -> "n" [] c = "O" -> "o" [] c = "P" -> "p"
         [] c = "Q" -> "q" [] c = "R" -> "r" [] c = "S" -> "s" [] c = "T" -> "t"
         [] c = "U" -> "u" [] c = "V" -> "v" [] c = "W" -> "w" [] c = "X" -> "x"
         [] c = "Y" -> "y" [] c = "Z" -> "z"]

\* str.lower()
Lower(s) ==
    [i \in 1..Len(s) |-> IF s[i] \in DOMAIN UpperToLower THEN UpperToLower[s[i]] ELSE s[i]]

\* needle in haystack
Contains(haystack, needle) ==
    \E i \in 0..(Len(haystack) - Len(needle)) :
        \A j \in 1..Len(needle) : haystack[i + j] = needle[j]

\* haystack.startswith(prefix)
StartsWith(haystack, prefix) ==
    /\ Len(prefix) <= Len(haystack)
    /\ \A j \in 1..Len(prefix) : haystack[j] = prefix[j]

DigitChar == <<"0", "1", "2", "3", "4", "5", "6", "7", "8", "9">>

RECURSIVE NatStr(_)
NatStr(n) ==
    IF n < 10 THEN <<DigitChar[n + 1]>>
    ELSE NatStr(n \div 10) \o <<DigitChar[(n % 10) + 1]>>

\* str(n) of an int
IntStr(n) == IF n < 0 THEN <<"-">> \o NatStr(-n) ELSE NatStr(n)

\* str(x) of a float held in tenths: always one decimal digit
TenthsStr(t) ==
    IF t < 0 THEN <<"-">> \o NatStr((-t) \div 10) \o <<".">> \o <<DigitChar[((-t) % 10) + 1]>>
    ELSE NatStr(t \div 10) \o <<".">> \o <<DigitChar[(t % 10) + 1]>>

\* round(): n / 10 rounded to an integer, ties to the even neighbour
RoundDiv10(n) ==
    LET q == n \div 10
        r == n % 10
    IN  IF r < 5 THEN q
        ELSE IF r > 5 THEN q + 1
        ELSE IF q % 2 = 0 THEN q ELSE q + 1

(***************************************************************************)
(* Python values, dicts and call outcomes.                                 *)
(***************************************************************************)
PyStr(s) == [t |-> "str", s |-> s]
PyInt(n) == [t |-> "int", n |-> n]
PyFloat(x) == [t |-> "float", x |-> x]
PyNone == [t |-> "none"]

IsStr(v) == v.t = "str"

\* dict.get(key, default)
Get(d, key, default) == IF key \in DOMAIN d THEN d[key] ELSE default

\* d | {key: value}
Put(d, key, value) == [k \in DOMAIN d \cup {key} |-> IF k = key THEN value ELSE d[k]]

\* a call either returns a value or raises an exception
Return(v) == [raised |-> FALSE, value |-> v]
Raise(e) == [raised |-> TRUE, exc |-> e]

PyBool(b) == [t |-> "bool", b |-> b]
PyList(items) == [t |-> "list", items |-> items]

\* bool(v): None, "", 0, 0.0, False and [] are false
Truthy(v) ==
    CASE v.t = "none" -> FALSE
      [] v.t = "str" -> v.s # <<>>
      [] v.t = "int" -> v.n # 0
      [] v.t = "float" -> v.x # 0
      [] v.t = "bool" -> v.b
      [] v.t = "list" -> v.items # <<>>

Digits == {"0", "1", "2", "3", "4", "5", "6", "7", "8", "9"}

DigitValue(c) == CHOOSE n \in 0..9 : DigitChar[n + 1] = c

RECURSIVE DigitsValue(_)
DigitsValue(s) ==
    IF s = <<>> THEN 0 ELSE 10 * DigitsValue(SubSeq(s, 1, Len(s) - 1)) + DigitValue(s[Len(s)])

\* the decimal notations float() is given here: [-]digits[.digit], at least one digit
IsDecimal(s) ==
    LET body == IF s # <<>> /\ s[1] = "-" THEN Tail(s) ELSE s
        dots == {i \in 1..Len(body) : body[i] = "."}
    IN  /\ body # <<>>
        /\ \A i \in 1..Len(body) : body[i] \in Digits \cup {"."}
        /\ Cardinality(dots) <= 1
        /\ \E i \in 1..Len(body) : body[i] \in Digits
        /\ \A i \in dots : Len(body) - i <= 1

\* float(s): the value in tenths, or ValueError
ParseFloat(s) ==
    IF ~IsDecimal(s) THEN Raise("ValueError")
    ELSE
        LET negative == s[1] = "-"
            body == IF negative THEN Tail(s) ELSE s
            dots == {i \in 1..Len(body) : body[i] = "."}
            dot == IF dots = {} THEN Len(body) + 1 ELSE CHOOSE i \in dots : TRUE
            whole == DigitsValue(SubSeq(body, 1, dot - 1))
            frac == IF dot < Len(body) THEN DigitValue(body[dot + 1]) ELSE 0
            tenths == 10 * whole + frac
        IN  Return(IF negative THEN -tenths ELSE tenths)

\* n / d rounded to an integer, ties to the even neighbour (n >= 0, d > 0)
RoundDiv(n, d) ==
    LET q == n \div d
        r == n % d
    IN  IF 2 * r < d THEN q
        ELSE IF 2 * r > d THEN q + 1
        ELSE IF q % 2 = 0 THEN q ELSE q + 1

(***************************************************************************)
(* JSON text, held as the document it denotes: json.dumps maps a Python    *)
(* value to a document, json.loads maps a document back.                   *)
(***************************************************************************)
RECURSIVE JsonOf(_)
JsonOf(v) ==
    CASE v.t = "none" -> [j |-> "null"]
      [] v.t = "str" -> [j |-> "string", s |-> v.s]
      [] v.t = "int" -> [j |-> "integer", n |-> v.n]
      [] v.t = "float" -> [j |-> "real", x |-> v.x]
      [] v.t = "bool" -> [j |-> IF v.b THEN "true" ELSE "false"]
      [] v.t = "list" -> [j |-> "array",
                          items |-> [i \in 1..Len(v.items) |-> JsonOf(v.items[i])]]

\* json.dumps(d) of a dict with str keys
JsonDumpsDict(d) == [j |-> "object", members |-> [k \in DOMAIN d |-> JsonOf(d[k])]]

\* json.dumps(v) of a value
JsonDumps(v) == JsonOf(v)

\* json.loads(text): the Python value of a document; an object becomes a dict
RECURSIVE JsonLoads(_)
JsonLoads(doc) ==
    CASE doc.j = "null" -> PyNone
      [] doc.j = "string" -> PyStr(doc.s)
      [] doc.j = "integer" -> PyInt(doc.n)
      [] doc.j = "real" -> PyFloat(doc.x)
      [] doc.j \in {"true", "false"} -> PyBool(doc.j = "true")
      [] doc.j = "array" ->
             PyList([i \in 1..Len(doc.items) |-> JsonLoads(doc.items[i])])
      [] doc.j = "object" -> [k \in DOMAIN doc.members |-> JsonLoads(doc.members[k])]

(***************************************************************************)
(* String literals of the program.                                         *)
(***************************************************************************)
\* "green"
S_green ==
    <<"g", "r", "e", "e", "n">>
\* "yellow"
S_yellow ==
    <<"y", "e", "l", "l", "o", "w">>
\* "red"
S_red ==
    <<"r", "e", "d">>
\* "unknown"
S_unknown ==
    <<"u", "n", "k", "n", "o", "w", "n">>
\* "#FF3B30"
S_color_red ==
    <<"#", "F", "F", "3", "B", "3", "0">>
\* "#FF9500"
S_color_yellow ==
    <<"#", "F", "F", "9", "5", "0", "0">>
\* "#34C759"
S_color_green ==
    <<"#", "3", "4", "C", "7", "5", "9">>
\* "\u26d4 DO NOT SPRAY \u2014 "
S_red_prefix ==
    <<"U+26D4", " ", "D", "O", " ", "N", "O", "T", " ", "S", "P", "R", "A", "Y", " ", "U+2014",
      " ">>
\* "High rain probability: "
S_high_rain ==
    <<"H", "i", "g", "h", " ", "r", "a", "i", "n", " ", "p", "r", "o", "b", "a", "b", "i", "l", "i",
      "t", "y", ":", " ">>
\* "Wind too high: "
S_wind_too_high ==
    <<"W", "i", "n", "d", " ", "t", "o", "o", " ", "h", "i", "g", "h", ":", " ">>
\* "\u26a0\ufe0f SPRAY WITH CAUTION \u2014 "
S_yellow_prefix ==
    <<"U+26A0", "U+FE0F", " ", "S", "P", "R", "A", "Y", " ", "W", "I", "T", "H", " ", "C", "A", "U",
      "T", "I", "O", "N", " ", "U+2014", " ">>
\* "Moderate rain probability: "
S_moderate_rain ==
    <<"M", "o", "d", "e", "r", "a", "t", "e", " ", "r", "a", "i", "n", " ", "p", "r", "o", "b", "a",
      "b", "i", "l", "i", "t", "y", ":", " ">>
\* "Moderate wind: "
S_moderate_wind ==
    <<"M", "o", "d", "e", "r", "a", "t", "e", " ", "w", "i", "n", "d", ":", " ">>
\* "\u2705 SAFE TO SPRAY \u2014 Rain probability: "
S_green_prefix ==
    <<"U+2705", " ", "S", "A", "F", "E", " ", "T", "O", " ", "S", "P", "R", "A", "Y", " ", "U+2014",
      " ", "R", "a", "i", "n", " ", "p", "r", "o", "b", "a", "b", "i", "l", "i", "t", "y", ":",
      " ">>
\* "% | Wind speed: "
S_green_wind ==
    <<"%", " ", "|", " ", "W", "i", "n", "d", " ", "s", "p", "e", "e", "d", ":", " ">>
\* "%"
S_percent ==
    <<"%">>
\* " km/h"
S_kmh ==
    <<" ", "k", "m", "/", "h">>
\* " | "
S_join ==
    <<" ", "|", " ">>
\* "None"
S_None ==
    <<"N", "o", "n", "e">>
\* "Unknown"
S_Unknown ==
    <<"U", "n", "k", "n", "o", "w", "n">>
\* ""
S_empty == <<>>
\* "N/A"
S_NA ==
    <<"N", "/", "A">>
\* "Yield Estimation"
S_Yield_Estimation ==
    <<"Y", "i", "e", "l", "d", " ", "E", "s", "t", "i", "m", "a", "t", "i", "o", "n">>
\* "Soil Analysis"
S_Soil_Analysis ==
    <<"S", "o", "i", "l", " ", "A", "n", "a", "l", "y", "s", "i", "s">>
\* "YIELD REPORT: "
S_yield_report ==
    <<"Y", "I", "E", "L", "D", " ", "R", "E", "P", "O", "R", "T", ":", " ">>
\* ". HARVEST ADVICE: "
S_harvest_advice ==
    <<".", " ", "H", "A", "R", "V", "E", "S", "T", " ", "A", "D", "V", "I", "C", "E", ":", " ">>
\* "Check market prices."
S_check_market ==
    <<"C", "h", "e", "c", "k", " ", "m", "a", "r", "k", "e", "t", " ", "p", "r", "i", "c", "e", "s",
      ".">>
\* "SOIL REPORT: Type: "
S_soil_report ==
    <<"S", "O", "I", "L", " ", "R", "E", "P", "O", "R", "T", ":", " ", "T", "y", "p", "e", ":",
      " ">>
\* ", Moisture: "
S_moisture ==
    <<",", " ", "M", "o", "i", "s", "t", "u", "r", "e", ":", " ">>
\* ". RECOMMENDATION: "
S_recommendation ==
    <<".", " ", "R", "E", "C", "O", "M", "M", "E", "N", "D", "A", "T", "I", "O", "N", ":", " ">>
\* "CONDITIONS IDEAL. Spray immediately."
S_timing_green ==
    <<"C", "O", "N", "D", "I", "T", "I", "O", "N", "S", " ", "I", "D", "E", "A", "L", ".", " ", "S",
      "p", "r", "a", "y", " ", "i", "m", "m", "e", "d", "i", "a", "t", "e", "l", "y", ".">>
\* "CAUTION. High wind/rain risk."
S_timing_yellow ==
    <<"C", "A", "U", "T", "I", "O", "N", ".", " ", "H", "i", "g", "h", " ", "w", "i", "n", "d", "/",
      "r", "a", "i", "n", " ", "r", "i", "s", "k", ".">>
\* "DO NOT SPRAY. Rain expected."
S_timing_red ==
    <<"D", "O", " ", "N", "O", "T", " ", "S", "P", "R", "A", "Y", ".", " ", "R", "a", "i", "n", " ",
      "e", "x", "p", "e", "c", "t", "e", "d", ".">>
\* "DIAGNOSIS: "
S_diagnosis ==
    <<"D", "I", "A", "G", "N", "O", "S", "I", "S", ":", " ">>
\* " (Severity: "
S_severity ==
    <<" ", "(", "S", "e", "v", "e", "r", "i", "t", "y", ":", " ">>
\* "%). WEATHER: "
S_weather ==
    <<"%", ")", ".", " ", "W", "E", "A", "T", "H", "E", "R", ":", " ">>
\* ". ADVISORY: "
S_advisory ==
    <<".", " ", "A", "D", "V", "I", "S", "O", "R", "Y", ":", " ">>
\* " TREATMENT: "
S_treatment ==
    <<" ", "T", "R", "E", "A", "T", "M", "E", "N", "T", ":", " ">>
\* "\u2705 SAFE TO SPRAY \u2014 Rain probability: 12% | Wind speed: 9.2 km/h"
S_demo_weather_reason ==
    <<"U+2705", " ", "S", "A", "F", "E", " ", "T", "O", " ", "S", "P", "R", "A", "Y", " ", "U+2014",
      " ", "R", "a", "i", "n", " ", "p", "r", "o", "b", "a", "b", "i", "l", "i", "t", "y", ":", " ",
      "1", "2", "%", " ", "|", " ", "W", "i", "n", "d", " ", "s", "p", "e", "e", "d", ":", " ", "9",
      ".", "2", " ", "k", "m", "/", "h">>
\* "Weather unavailable"
S_Weather_unavailable ==
    <<"W", "e", "a", "t", "h", "e", "r", " ", "u", "n", "a", "v", "a", "i", "l", "a", "b", "l",
      "e">>
\* "No GPS location provided"
S_No_GPS ==
    <<"N", "o", " ", "G", "P", "S", " ", "l", "o", "c", "a", "t", "i", "o", "n", " ", "p", "r", "o",
      "v", "i", "d", "e", "d">>
\* "Good conditions \u2014 Wind: "
S_meteo_green ==
    <<"G", "o", "o", "d", " ", "c", "o", "n", "d", "i", "t", "i", "o", "n", "s", " ", "U+2014", " ",
      "W", "i", "n", "d", ":", " ">>
\* "Caution \u2014 Wind: "
S_meteo_yellow ==
    <<"C", "a", "u", "t", "i", "o", "n", " ", "U+2014", " ", "W", "i", "n", "d", ":", " ">>
\* "DO NOT SPRAY \u2014 Wind too high: "
S_meteo_red ==
    <<"D", "O", " ", "N", "O", "T", " ", "S", "P", "R", "A", "Y", " ", "U+2014", " ", "W", "i", "n",
      "d", " ", "t", "o", "o", " ", "h", "i", "g", "h", ":", " ">>
\* " km/h, Rain: "
S_meteo_rain ==
    <<" ", "k", "m", "/", "h", ",", " ", "R", "a", "i", "n", ":", " ">>
\* " mm"
S_mm ==
    <<" ", "m", "m">>
\* "No image file provided."
S_No_image ==
    <<"N", "o", " ", "i", "m", "a", "g", "e", " ", "f", "i", "l", "e", " ", "p", "r", "o", "v", "i",
      "d", "e", "d", ".">>
\* "could not convert string to float: "
S_float_error ==
    <<"c", "o", "u", "l", "d", " ", "n", "o", "t", " ", "c", "o", "n", "v", "e", "r", "t", " ", "s",
      "t", "r", "i", "n", "g", " ", "t", "o", " ", "f", "l", "o", "a", "t", ":", " ">>
\* "'"
S_quote ==
    <<"'">>
\* "Server error."
S_Server_error ==
    <<"S", "e", "r", "v", "e", "r", " ", "e", "r", "r", "o", "r", ".">>
\* "analysis error"
S_sig_analysis_error ==
    <<"a", "n", "a", "l", "y", "s", "i", "s", " ", "e", "r", "r", "o", "r">>
\* "api key"
S_sig_api_key ==
    <<"a", "p", "i", " ", "k", "e", "y">>
\* "check your internet"
S_sig_internet ==
    <<"c", "h", "e", "c", "k", " ", "y", "o", "u", "r", " ", "i", "n", "t", "e", "r", "n", "e",
      "t">>
\* "quota"
S_sig_quota ==
    <<"q", "u", "o", "t", "a">>
\* " "
S_space ==
    <<" ">>
\* "Nitrogen Deficiency (Demo)"
S_demo_disease ==
    <<"N", "i", "t", "r", "o", "g", "e", "n", " ", "D", "e", "f", "i", "c", "i", "e", "n", "c", "y",
      " ", "(", "D", "e", "m", "o", ")">>
\* "High"
S_High ==
    <<"H", "i", "g", "h">>
\* "Lower Leaves"
S_Lower_Leaves ==
    <<"L", "o", "w", "e", "r", " ", "L", "e", "a", "v", "e", "s">>
\* "Yellowing of lower leaves"
S_demo_symptom_1 ==
    <<"Y", "e", "l", "l", "o", "w", "i", "n", "g", " ", "o", "f", " ", "l", "o", "w", "e", "r", " ",
      "l", "e", "a", "v", "e", "s">>
\* "Pale green upper canopy"
S_demo_symptom_2 ==
    <<"P", "a", "l", "e", " ", "g", "r", "e", "e", "n", " ", "u", "p", "p", "e", "r", " ", "c", "a",
      "n", "o", "p", "y">>
\* "Stunted growth"
S_demo_symptom_3 ==
    <<"S", "t", "u", "n", "t", "e", "d", " ", "g", "r", "o", "w", "t", "h">>
\* "Apply Urea at 50 kg/acre. Cost: \u20b9800/acre. Re-check in 10 days."
S_demo_treatment ==
    <<"A", "p", "p", "l", "y", " ", "U", "r", "e", "a", " ", "a", "t", " ", "5", "0", " ", "k", "g",
      "/", "a", "c", "r", "e", ".", " ", "C", "o", "s", "t", ":", " ", "U+20B9", "8", "0", "0", "/",
      "a", "c", "r", "e", ".", " ", "R", "e", "-", "c", "h", "e", "c", "k", " ", "i", "n", " ", "1",
      "0", " ", "d", "a", "y", "s", ".">>
\* "Insufficient nitrogen in soil due to leaching or poor organic matter."
S_demo_cause ==
    <<"I", "n", "s", "u", "f", "f", "i", "c", "i", "e", "n", "t", " ", "n", "i", "t", "r", "o", "g",
      "e", "n", " ", "i", "n", " ", "s", "o", "i", "l", " ", "d", "u", "e", " ", "t", "o", " ", "l",
      "e", "a", "c", "h", "i", "n", "g", " ", "o", "r", " ", "p", "o", "o", "r", " ", "o", "r", "g",
      "a", "n", "i", "c", " ", "m", "a", "t", "t", "e", "r", ".">>
\* "Test soil before every season."
S_demo_tip_1 ==
    <<"T", "e", "s", "t", " ", "s", "o", "i", "l", " ", "b", "e", "f", "o", "r", "e", " ", "e", "v",
      "e", "r", "y", " ", "s", "e", "a", "s", "o", "n", ".">>
\* "Use slow-release fertilisers to reduce leaching."
S_demo_tip_2 ==
    <<"U", "s", "e", " ", "s", "l", "o", "w", "-", "r", "e", "l", "e", "a", "s", "e", " ", "f", "e",
      "r", "t", "i", "l", "i", "s", "e", "r", "s", " ", "t", "o", " ", "r", "e", "d", "u", "c", "e",
      " ", "l", "e", "a", "c", "h", "i", "n", "g", ".">>
\* "Incorporate green manure crops in rotation."
S_demo_tip_3 ==
    <<"I", "n", "c", "o", "r", "p", "o", "r", "a", "t", "e", " ", "g", "r", "e", "e", "n", " ", "m",
      "a", "n", "u", "r", "e", " ", "c", "r", "o", "p", "s", " ", "i", "n", " ", "r", "o", "t", "a",
      "t", "i", "o", "n", ".">>
\* "Maintain optimal irrigation to prevent nutrient runoff."
S_demo_tip_4 ==
    <<"M", "a", "i", "n", "t", "a", "i", "n", " ", "o", "p", "t", "i", "m", "a", "l", " ", "i", "r",
      "r", "i", "g", "a", "t", "i", "o", "n", " ", "t", "o", " ", "p", "r", "e", "v", "e", "n", "t",
      " ", "n", "u", "t", "r", "i", "e", "n", "t", " ", "r", "u", "n", "o", "f", "f", ".">>
\* "NFSM Soil Health Card"
S_demo_subsidy ==
    <<"N", "F", "S", "M", " ", "S", "o", "i", "l", " ", "H", "e", "a", "l", "t", "h", " ", "C", "a",
      "r", "d">>
\* "https://www.soilhealth.dac.gov.in/"
S_demo_url ==
    <<"h", "t", "t", "p", "s", ":", "/", "/", "w", "w", "w", ".", "s", "o", "i", "l", "h", "e", "a",
      "l", "t", "h", ".", "d", "a", "c", ".", "g", "o", "v", ".", "i", "n", "/">>
\* "Spend \u20b9800 on Urea \u2192 save 20% of \u20b912,000 yield = \u20b92,400 gain"
S_demo_roi ==
    <<"S", "p", "e", "n", "d", " ", "U+20B9", "8", "0", "0", " ", "o", "n", " ", "U", "r", "e", "a",
      " ", "U+2192", " ", "s", "a", "v", "e", " ", "2", "0", "%", " ", "o", "f", " ", "U+20B9", "1",
      "2", ",", "0", "0", "0", " ", "y", "i", "e", "l", "d", " ", "=", " ", "U+20B9", "2", ",", "4",
      "0", "0", " ", "g", "a", "i", "n">>

\* str(v), as an f-string renders a value
Str(v) ==
    CASE v.t = "str" -> v.s
      [] v.t = "int" -> IntStr(v.n)
      [] v.t = "float" -> TenthsStr(v.x)
      [] v.t = "none" -> S_None

(***************************************************************************)
(* services/weather_service.py                                             *)
(***************************************************************************)
\* spray safety thresholds: probabilities in thousandths, wind in hundredths of km/h
RAIN_PROB_SAFE == 200
RAIN_PROB_CAUTION == 500
WIND_SAFE_KMH == 1500
WIND_CAUTION_KMH == 2500

\* f"{round(rain_prob * 100)}"
RainPctStr(rain_prob) == IntStr(RoundDiv10(rain_prob))

\* f"{round(wind_kmh, 1)}"
WindStr(wind_kmh) == TenthsStr(RoundDiv10(wind_kmh))

\* a slip: only the first part is reported
JoinFirstOnly(sep, parts) == IF parts = <<>> THEN <<>> ELSE parts[1]

\* " | ".join(parts)
RECURSIVE Join(_, _)
Join(sep, parts) ==
    IF parts = <<>> THEN <<>>
    ELSE IF Len(parts) = 1 THEN parts[1]
    ELSE parts[1] \o sep \o Join(sep, Tail(parts))

\* a slip in the red rule: the two conditions joined with "and"
RedRuleBothExceeded(rain_prob, wind_kmh) ==
    rain_prob > RAIN_PROB_CAUTION /\ wind_kmh > WIND_CAUTION_KMH

\* the condition of the first branch: rain_prob > RAIN_PROB_CAUTION or wind_kmh > WIND_CAUTION_KMH
RedRule(rain_prob, wind_kmh) ==
    rain_prob > RAIN_PROB_CAUTION \/ wind_kmh > WIND_CAUTION_KMH

\* a slip in the yellow rule: thresholds compared with >=
YellowRuleInclusive(rain_prob, wind_kmh) ==
    rain_prob >= RAIN_PROB_SAFE \/ wind_kmh >= WIND_SAFE_KMH

\* a slip in the yellow rule: the wind condition left out
YellowRuleRainOnly(rain_prob, wind_kmh) ==
    rain_prob > RAIN_PROB_SAFE

\* the condition of the elif branch: rain_prob > RAIN_PROB_SAFE or wind_kmh > WIND_SAFE_KMH
YellowRule(rain_prob, wind_kmh) ==
    rain_prob > RAIN_PROB_SAFE \/ wind_kmh > WIND_SAFE_KMH

\* _calculate_spray_status(rain_prob, wind_kmh) -> (status_text, color_code, reason_string)
_calculate_spray_status(rain_prob, wind_kmh) ==
    IF RedRule(rain_prob, wind_kmh) THEN
        LET parts ==
                (IF rain_prob > RAIN_PROB_CAUTION
                 THEN <<S_high_rain \o RainPctStr(rain_prob) \o S_percent>> ELSE <<>>)
                \o
                (IF wind_kmh > WIND_CAUTION_KMH
                 THEN <<S_wind_too_high \o WindStr(wind_kmh) \o S_kmh>> ELSE <<>>)
        IN  [status |-> S_red, color |-> S_color_red,
             reason |-> S_red_prefix \o Join(S_join, parts)]
    ELSE IF YellowRule(rain_prob, wind_kmh) THEN
        LET parts ==
                (IF rain_prob > RAIN_PROB_SAFE
                 THEN <<S_moderate_rain \o RainPctStr(rain_prob) \o S_percent>> ELSE <<>>)
                \o
                (IF wind_kmh > WIND_SAFE_KMH
                 THEN <<S_moderate_wind \o WindStr(wind_kmh) \o S_kmh>> ELSE <<>>)
        IN  [status |-> S_yellow, color |-> S_color_yellow,
             reason |-> S_yellow_prefix \o Join(S_join, parts)]
    ELSE
        [status |-> S_green, color |-> S_color_green,
         reason |-> S_green_prefix \o RainPctStr(rain_prob) \o S_green_wind
                    \o WindStr(wind_kmh) \o S_kmh]

RECURSIVE SeqSum(_)
SeqSum(xs) == IF xs = <<>> THEN 0 ELSE Head(xs) + SeqSum(Tail(xs))

SeqMax(xs) == CHOOSE m \in {xs[i] : i \in 1..Len(xs)} : \A i \in 1..Len(xs) : xs[i] <= m

SeqMin(xs) == CHOOSE m \in {xs[i] : i \in 1..Len(xs)} : \A i \in 1..Len(xs) : m <= xs[i]

\* _parse_forecast(data): data.list is the sequence of 3-hour intervals, each with
\* pop (thousandths), wind_ms (tenths of m/s), temp (tenths), humidity (percent) and
\* rain_mm (tenths).  The display-only entries location_name and hourly_summary of the
\* returned dict are left out.
_parse_forecast(data) ==
    LET intervals == data.list
        n == Len(intervals)
        \* wind_kmh = wind_ms * 3.6, in hundredths of km/h
        max_rain_prob == SeqMax(<<0>> \o [i \in 1..n |-> intervals[i].pop])
        max_wind_kmh == SeqMax(<<0>> \o [i \in 1..n |-> 36 * intervals[i].wind_ms])
        temps == [i \in 1..n |-> intervals[i].temp]
        humidities == [i \in 1..n |-> intervals[i].humidity]
        rainfalls == [i \in 1..n |-> intervals[i].rain_mm]
        avg_temp == RoundDiv(SeqSum(temps), n)
        avg_humidity == RoundDiv(SeqSum(humidities), n)
        total_rain == SeqSum(rainfalls)
        spray == _calculate_spray_status(max_rain_prob, max_wind_kmh)
    IN  IF intervals = <<>> THEN Raise("ValueError")
        ELSE Return(
            [temp_max |-> PyFloat(SeqMax(temps)),
             temp_min |-> PyFloat(SeqMin(temps)),
             humidity |-> PyInt(avg_humidity),
             rainfall |-> PyFloat(total_rain),
             wind_speed |-> PyFloat(RoundDiv10(max_wind_kmh)),
             spray_status |-> PyStr(spray.status),
             status_reason |-> PyStr(spray.reason),
             max_rain_prob_pct |-> PyInt(RoundDiv10(max_rain_prob)),
             max_wind_kmh |-> PyFloat(RoundDiv10(max_wind_kmh)),
             temperature_c |-> PyFloat(avg_temp),
             humidity_pct |-> PyInt(avg_humidity),
             status_color |-> PyStr(spray.color),
             forecast_window_hours |-> PyInt(n * 3)])

\* _get_demo_weather(lat, lon), without location_name and hourly_summary
_get_demo_weather ==
    [temp_max |-> PyFloat(320),
     temp_min |-> PyFloat(220),
     humidity |-> PyInt(62),
     rainfall |-> PyFloat(12),
     wind_speed |-> PyFloat(92),
     spray_status |-> PyStr(S_green),
     status_reason |-> PyStr(S_demo_weather_reason),
     max_rain_prob_pct |-> PyInt(12),
     max_wind_kmh |-> PyFloat(92),
     temperature_c |-> PyFloat(240),
     humidity_pct |-> PyInt(62),
     status_color |-> PyStr(S_color_green),
     forecast_window_hours |-> PyInt(24),
     demo_mode |-> PyBool(TRUE)]

\* fetch_weather_forecast(lat, lon).  owm is what the environment does for this call:
\*   [kind |-> "no_key"]                 OPENWEATHER_API_KEY is not set
\*   [kind |-> "timeout"]                requests.get times out
\*   [kind |-> "http_error", code |-> c] raise_for_status() raises
\*   [kind |-> "ok", data |-> d]         the forecast JSON d is returned
\* The result is the value returned or the exception raised, and whether an HTTP
\* request went out.
fetch_weather_forecast(owm) ==
    CASE owm.kind = "no_key" -> [outcome |-> Return(_get_demo_weather), http |-> FALSE]
      [] owm.kind = "timeout" -> [outcome |-> Raise("ConnectionError"), http |-> TRUE]
      [] owm.kind = "http_error" ->
             [outcome |-> IF owm.code = 401 THEN Raise("ValueError") ELSE Raise("HTTPError"),
              http |-> TRUE]
      [] owm.kind = "ok" -> [outcome |-> _parse_forecast(owm.data), http |-> TRUE]

(***************************************************************************)
(* services/ai_service.py                                                  *)
(***************************************************************************)
MODELS_TO_TRY == <<"gemini-2.0-flash", "gemini-2.5-flash", "gemini-1.5-flash">>

\* _generate_with_fallback(contents), with the client initialised.  gemini[i] is what
\* model MODELS_TO_TRY[i] does if it is called: [ok |-> FALSE], or [ok |-> TRUE,
\* reply |-> r].  The result is the reply returned or RuntimeError, and the models
\* called, in order.
_generate_with_fallback(gemini) ==
    LET succeeding == {i \in 1..Len(MODELS_TO_TRY) : gemini[i].ok}
        first == CHOOSE i \in succeeding : \A k \in succeeding : i <= k
    IN  IF succeeding = {}
        THEN [outcome |-> Raise("RuntimeError"), models |-> MODELS_TO_TRY]
        ELSE [outcome |-> Return(gemini[first].reply),
              models |-> SubSeq(MODELS_TO_TRY, 1, first)]

\* a slip: the quota signal left out
_error_signals_without_quota == {S_sig_analysis_error, S_sig_api_key, S_sig_internet}

_error_signals == {S_sig_analysis_error, S_sig_api_key, S_sig_internet, S_sig_quota}

\* analyze_crop_image(image_bytes, mime_type, mode).  A reply is the text of the model
\* held as what json.loads makes of its {...} block: [json |-> "invalid"],
\* [json |-> "array"] or [json |-> "object", result |-> dict].  The mode only selects
\* the prompt sent to the model.
analyze_crop_image(gemini) ==
    LET generated == _generate_with_fallback(gemini)
        reply == generated.outcome.value
        result == reply.result
        _result_text == Lower(Str(Get(result, "disease_name", PyStr(S_empty))) \o S_space
                              \o Str(Get(result, "treatment_advice", PyStr(S_empty))))
    IN  [models |-> generated.models,
         outcome |->
             IF generated.outcome.raised THEN Raise("RuntimeError")
             ELSE IF reply.json = "invalid" THEN Raise("JSONDecodeError")
             ELSE IF reply.json = "array" THEN Raise("AttributeError")
             ELSE IF \E sig \in _error_signals : Contains(_result_text, sig)
                  THEN Raise("RuntimeError")
             ELSE Return(result)]

\* get_demo_diagnosis()
get_demo_diagnosis ==
    [disease_name |-> PyStr(S_demo_disease),
     severity_score |-> PyInt(65),
     confidence_level |-> PyStr(S_High),
     affected_crop_part |-> PyStr(S_Lower_Leaves),
     symptoms |-> PyList(<<PyStr(S_demo_symptom_1), PyStr(S_demo_symptom_2),
                           PyStr(S_demo_symptom_3)>>),
     treatment_advice |-> PyStr(S_demo_treatment),
     expected_cause |-> PyStr(S_demo_cause),
     prevention_tips |-> PyList(<<PyStr(S_demo_tip_1), PyStr(S_demo_tip_2),
                                  PyStr(S_demo_tip_3), PyStr(S_demo_tip_4)>>),
     govt_subsidy |-> PyStr(S_demo_subsidy),
     govt_scheme_url |-> PyStr(S_demo_url),
     roi_calculation |-> PyStr(S_demo_roi),
     sustainability_score |-> PyInt(6)]

(***************************************************************************)
(* app.py: enrich_weather_from_openmeteo                                   *)
(***************************************************************************)
\* d.update(e)
Update(d, e) == [k \in DOMAIN d \cup DOMAIN e |-> IF k \in DOMAIN e THEN e[k] ELSE d[k]]

\* the number held by an int or a float, in tenths
Tenths(v) == IF v.t = "int" THEN 10 * v.n ELSE v.x

\* x or 0
OrZero(v) == IF Truthy(v) THEN v ELSE PyInt(0)

\* not any([weather.get("temp_max"), weather.get("temperature"), weather.get("temp")])
NeedsEnrichment(weather) ==
    ~(\/ Truthy(Get(weather, "temp_max", PyNone))
      \/ Truthy(Get(weather, "temperature", PyNone))
      \/ Truthy(Get(weather, "temp", PyNone)))

\* a slip: only a missing spray_status is derived, "unknown" is kept
EnrichDerivesStatusOnlyIfMissing(weather) ==
    ~Truthy(Get(weather, "spray_status", PyNone))

\* not weather.get("spray_status") or weather["spray_status"].lower() == "unknown",
\* for a spray_status that is falsy or a str
EnrichDerivesStatus(weather) ==
    \/ ~Truthy(Get(weather, "spray_status", PyNone))
    \/ Lower(weather["spray_status"].s) = S_unknown

\* the status derived from Open-Meteo's wind (km/h) and rainfall (mm)
MeteoSprayStatus(wind, rainfall) ==
    LET w == OrZero(wind)
        r == OrZero(rainfall)
    IN  IF Tenths(w) < 150 /\ Tenths(r) < 50 THEN
            [spray_status |-> PyStr(S_green),
             status_reason |-> PyStr(S_meteo_green \o Str(w) \o S_meteo_rain \o Str(r) \o S_mm)]
        ELSE IF Tenths(w) < 250 /\ Tenths(r) < 150 THEN
            [spray_status |-> PyStr(S_yellow),
             status_reason |-> PyStr(S_meteo_yellow \o Str(w) \o S_meteo_rain \o Str(r)
                                     \o S_mm)]
        ELSE
            [spray_status |-> PyStr(S_red),
             status_reason |-> PyStr(S_meteo_red \o Str(w) \o S_kmh)]

\* the body of the try block once Open-Meteo has answered with meteo: the weather dict
\* as the block leaves it (an exception after weather.update keeps the update)
EnrichTry(weather, meteo) ==
    LET hum == SubSeq(meteo.hum_list, 1, IF Len(meteo.hum_list) < 12
                                         THEN Len(meteo.hum_list) ELSE 12)
        humidity == IF meteo.hum_list # <<>> THEN PyInt(RoundDiv(SeqSum(hum), Len(hum)))
                    ELSE PyNone
        updated == Update(weather,
                          [temp_max |-> meteo.temp_max,
                           temp_min |-> meteo.temp_min,
                           humidity |-> humidity,
                           rainfall |-> meteo.rainfall,
                           wind_speed |-> meteo.wind])
        status == Get(updated, "spray_status", PyNone)
    IN  IF Truthy(status) /\ ~IsStr(status) THEN updated   \* .lower() raises, caught below
        ELSE IF EnrichDerivesStatus(updated)
        THEN Update(updated, MeteoSprayStatus(meteo.wind, meteo.rainfall))
        ELSE updated

\* enrich_weather_from_openmeteo(lat, lon, weather).  meteo is what Open-Meteo does when
\* it is asked: [kind |-> "fail"] (urlopen, json.loads or the indexing raises) or
\* [kind |-> "ok", temp_max, temp_min, rainfall, wind, hum_list].  The result is the
\* dict returned or the exception raised, and whether the HTTP request went out.
enrich_weather_from_openmeteo(weather, meteo) ==
    LET needs_enrichment == NeedsEnrichment(weather)
        enriched == IF needs_enrichment /\ meteo.kind = "ok"
                    THEN EnrichTry(weather, meteo) ELSE weather
        status == Get(enriched, "spray_status", PyNone)
    IN  [outcome |->
             IF ~Truthy(status) THEN Return(enriched)
             ELSE IF ~IsStr(status) THEN Raise("AttributeError")
             ELSE Return([enriched EXCEPT !["spray_status"] = PyStr(Lower(status.s))]),
         http |-> needs_enrichment]

(***************************************************************************)
(* app.py: build_execution_plan                                            *)
(***************************************************************************)
\* a slip: the status compared as it arrives, without .lower()
PlanSprayStatusAsGiven(status_value) == status_value.s

\* weather.get("spray_status", "unknown").lower(), applied to a str
PlanSprayStatus(status_value) == Lower(status_value.s)

\* the timing instruction selected by spray_status
PlanTiming(spray_status) ==
    IF spray_status = S_green THEN S_timing_green
    ELSE IF spray_status = S_yellow THEN S_timing_yellow
    ELSE S_timing_red

\* build_execution_plan(diagnosis, weather) -> str
build_execution_plan(diagnosis, weather) ==
    LET disease == Get(diagnosis, "disease_name", PyStr(S_Unknown))
        severity == Get(diagnosis, "severity_score", PyInt(0))
        status_value == Get(weather, "spray_status", PyStr(S_unknown))
        reason == Get(weather, "status_reason", PyStr(S_empty))
        treatment == Get(diagnosis, "treatment_advice", PyStr(S_empty))
    IN  IF ~IsStr(status_value) THEN
            \* .lower() on a value that is not a str
            Raise("AttributeError")
        ELSE IF disease = PyStr(S_Yield_Estimation) THEN
            Return(S_yield_report \o Str(Get(diagnosis, "yield_estimate", PyStr(S_NA)))
                   \o S_harvest_advice
                   \o Str(Get(diagnosis, "market_advice", PyStr(S_check_market))))
        ELSE IF disease = PyStr(S_Soil_Analysis) THEN
            Return(S_soil_report \o Str(Get(diagnosis, "soil_type", PyStr(S_NA)))
                   \o S_moisture \o Str(Get(diagnosis, "moisture_level", PyStr(S_NA)))
                   \o S_recommendation
                   \o Str(Get(diagnosis, "treatment_advice", PyStr(S_empty))))
        ELSE
            Return(S_diagnosis \o Str(disease) \o S_severity \o Str(severity)
                   \o S_weather \o Str(reason) \o S_advisory
                   \o PlanTiming(PlanSprayStatus(status_value))
                   \o S_treatment \o Str(treatment))

(***************************************************************************)
(* app.py: handle_errors and analyze                                       *)
(***************************************************************************)
RaiseWith(e, message) == [raised |-> TRUE, exc |-> e, message |-> message]

\* a slip: every exception reported as a server error
handle_errors_all_server(outcome) ==
    IF ~outcome.raised THEN outcome.value
    ELSE [status |-> 500, body |-> [error |-> S_Server_error, type |-> "server_error"]]

\* handle_errors: the response made of what the wrapped view returns or raises
handle_errors(outcome) ==
    IF ~outcome.raised THEN outcome.value
    ELSE IF outcome.exc = "ValueError"
    THEN [status |-> 400, body |-> [error |-> outcome.message, type |-> "validation_error"]]
    ELSE [status |-> 500, body |-> [error |-> S_Server_error, type |-> "server_error"]]

\* float(x) if x else None, for a form field (None when the field is not in the form)
FormFloat(field) ==
    IF ~Truthy(field) THEN Return(PyNone)
    ELSE LET parsed == ParseFloat(field.s)
         IN  IF parsed.raised
             THEN RaiseWith("ValueError", S_float_error \o S_quote \o field.s \o S_quote)
             ELSE Return(PyFloat(parsed.value))

_bad == {S_sig_analysis_error, S_sig_api_key, S_sig_internet, S_sig_quota, S_unknown}

\* _txt in _bad or not diagnosis.get("disease_name")
BadDiagnosis(diagnosis) ==
    \/ Lower(Str(Get(diagnosis, "disease_name", PyStr(S_empty)))) \in _bad
    \/ ~Truthy(Get(diagnosis, "disease_name", PyNone))

\* the calls of the AI step, in order: analyze_crop_image, and within it the models
\* tried, each with what it did
VisionCalls(vision, gemini) ==
    <<[call |-> "analyze_crop_image", raised |-> vision.outcome.raised]>>
    \o [i \in 1..Len(vision.models) |->
            [call |-> "gemini", model |-> vision.models[i], reply |-> gemini[i]]]

\* a slip: the except branch substitutes the demo diagnosis without setting used_demo
VisionOrDemoUnflagged(vision, gemini) ==
    IF vision.outcome.raised \/ BadDiagnosis(vision.outcome.value)
    THEN [diagnosis |-> get_demo_diagnosis, used_demo |-> FALSE,
          calls |-> VisionCalls(vision, gemini)]
    ELSE [diagnosis |-> vision.outcome.value, used_demo |-> FALSE,
          calls |-> VisionCalls(vision, gemini)]

\* the try block around analyze_crop_image and its except branch
VisionOrDemo(vision, gemini) ==
    IF vision.outcome.raised \/ BadDiagnosis(vision.outcome.value)
    THEN [diagnosis |-> get_demo_diagnosis, used_demo |-> TRUE,
          calls |-> VisionCalls(vision, gemini)]
    ELSE [diagnosis |-> vision.outcome.value, used_demo |-> FALSE,
          calls |-> VisionCalls(vision, gemini)]

\* the AI analysis step: the diagnosis, used_demo and the calls made
AiAnalysis(available, gemini) ==
    IF ~available
    THEN [diagnosis |-> get_demo_diagnosis, used_demo |-> TRUE, calls |-> <<>>]
    ELSE VisionOrDemo(analyze_crop_image(gemini), gemini)

\* a slip: the weather step taken when either coordinate is given
CoordinatesGivenEither(lat_f, lon_f) == Truthy(lat_f) \/ Truthy(lon_f)

\* if lat_f and lon_f
CoordinatesGiven(lat_f, lon_f) == Truthy(lat_f) /\ Truthy(lon_f)

\* the advisory used when fetch_weather_forecast raises
WeatherUnavailable ==
    [spray_status |-> PyStr(S_unknown), status_reason |-> PyStr(S_Weather_unavailable)]

\* a slip: the status of the skipped weather step written capitalised
NoGpsLocationCapitalised ==
    [spray_status |-> PyStr(S_Unknown), status_reason |-> PyStr(S_No_GPS)]

\* the advisory used when the weather step is skipped
NoGpsLocation ==
    [spray_status |-> PyStr(S_unknown), status_reason |-> PyStr(S_No_GPS)]

\* the dict handed to enrich_weather_from_openmeteo: the forecast fetched, or the
\* fallback when fetch_weather_forecast raised
Forecast(fetched) ==
    IF fetched.outcome.raised THEN WeatherUnavailable ELSE fetched.outcome.value

\* the advisory returned or the exception raised, and the calls made to get it
WeatherCalls(fetched, enriched, meteo) ==
    [outcome |-> enriched.outcome,
     calls |-> <<[call |-> "fetch_weather_forecast", raised |-> fetched.outcome.raised]>>
               \o (IF fetched.http THEN <<[call |-> "openweathermap"]>> ELSE <<>>)
               \o (IF enriched.http
                   THEN <<[call |-> "open-meteo", ok |-> meteo.kind = "ok"]>>
                   ELSE <<>>)]

\* the forecast, fetched or replaced by the fallback, goes through the enrichment
WeatherAdvisory(fetched, meteo) ==
    WeatherCalls(fetched, enrich_weather_from_openmeteo(Forecast(fetched), meteo), meteo)

\* the weather step
WeatherAnalysis(lat_f, lon_f, owm, meteo) ==
    IF CoordinatesGiven(lat_f, lon_f)
    THEN WeatherAdvisory(fetch_weather_forecast(owm), meteo)
    ELSE [outcome |-> Return(NoGpsLocation), calls |-> <<>>]

\* values SQLite binds to a column
Bindable(v) == v.t \in {"none", "str", "int", "float", "bool"}

\* db.session.commit() of the new row: IntegrityError for a null in a NOT NULL column
\* (disease_name, severity_score), InterfaceError for a value that cannot be bound
CommitError(record) ==
    IF \E c \in {"disease_name", "severity_score", "treatment_advice"} :
           ~Bindable(record[c])
    THEN "InterfaceError"
    ELSE IF record.disease_name = PyNone \/ record.severity_score = PyNone
    THEN "IntegrityError"
    ELSE "none"

\* the ScanRecord row built by analyze
NewScanRecord(id, now, lat_f, lon_f, diagnosis, weather, execution_plan, filename) ==
    [id |-> id,
     timestamp |-> now,
     latitude |-> lat_f,
     longitude |-> lon_f,
     disease_name |-> Get(diagnosis, "disease_name", PyStr(S_Unknown)),
     severity_score |-> Get(diagnosis, "severity_score", PyInt(0)),
     symptoms |-> JsonDumps(Get(diagnosis, "symptoms", PyList(<<>>))),
     treatment_advice |-> Get(diagnosis, "treatment_advice", PyStr(S_empty)),
     weather_summary |-> JsonDumpsDict(weather),
     spray_status |-> Get(weather, "spray_status", PyStr(S_unknown)),
     execution_plan |-> PyStr(execution_plan),
     image_filename |-> filename]

\* a slip: the key does not advance
NextIdStuck(store) == 1

\* the next value of the autoincrement primary key
NextId(store) == 1 + SeqMax(<<0>> \o [i \in 1..Len(store) |-> store[i].id])

\* the calls made by the AI step and by the weather step, in order
CollaboratorCalls(ai, weather) == ai.calls \o weather.calls

\* db.session.add(record), db.session.commit() and the JSON response
SaveScan(record, ai, weather, execution_plan, store, calls) ==
    IF CommitError(record) # "none" THEN
        [outcome |-> Raise(CommitError(record)), store |-> store, calls |-> calls]
    ELSE
        [outcome |-> Return([status |-> 200,
                             body |-> [success |-> TRUE,
                                       scan_id |-> record.id,
                                       diagnosis |-> ai.diagnosis,
                                       weather |-> weather,
                                       execution_plan |-> execution_plan,
                                       demo_mode |-> ai.used_demo]]),
         store |-> Append(store, record),
         calls |-> calls]

\* the ScanRecord is built from the plan that build_execution_plan returned
RecordScan(req, lat_f, lon_f, ai, weather, plan, store, now, calls) ==
    IF plan.raised THEN [outcome |-> plan, store |-> store, calls |-> calls]
    ELSE SaveScan(NewScanRecord(NextId(store), now, lat_f, lon_f, ai.diagnosis, weather,
                                plan.value, req.filename),
                  ai, weather, plan.value, store, calls)

\* the execution plan is built from the diagnosis and the advisory
PlanScan(req, lat_f, lon_f, ai, weather, store, now) ==
    IF weather.outcome.raised THEN
        [outcome |-> weather.outcome, store |-> store,
         calls |-> CollaboratorCalls(ai, weather)]
    ELSE RecordScan(req, lat_f, lon_f, ai, weather.outcome.value,
                    build_execution_plan(ai.diagnosis, weather.outcome.value),
                    store, now, CollaboratorCalls(ai, weather))

\* the AI step and the weather step follow the conversion of the coordinates
DiagnoseScan(req, lat, lon, available, gemini, owm, meteo, store, now) ==
    IF lat.raised THEN [outcome |-> lat, store |-> store, calls |-> <<>>]
    ELSE IF lon.raised THEN [outcome |-> lon, store |-> store, calls |-> <<>>]
    ELSE PlanScan(req, lat.value, lon.value, AiAnalysis(available, gemini),
                  WeatherAnalysis(lat.value, lon.value, owm, meteo), store, now)

\* analyze(): the view under @handle_errors.  req is the request (has_image, filename,
\* form), available is _gemini_available, gemini / owm / meteo are what the three
\* collaborators do if they are called, store is the scan_records table and now the
\* clock.  The result is what the view returns or raises, the table afterwards and the
\* calls made to the collaborators, in order.
analyze(req, available, gemini, owm, meteo, store, now) ==
    IF ~req.has_image THEN
        [outcome |-> RaiseWith("ValueError", S_No_image), store |-> store, calls |-> <<>>]
    ELSE DiagnoseScan(req, FormFloat(Get(req.form, "lat", PyNone)),
                      FormFloat(Get(req.form, "lon", PyNone)),
                      available, gemini, owm, meteo, store, now)

(***************************************************************************)
(* models.py: ScanRecord.to_dict; app.py: the handlers that read the table *)
(* and chat_api.                                                           *)
(***************************************************************************)
\* "Z"
S_Z ==
    <<"Z">>
\* "AgriUstaad AI is in demo mode. Describe your crop problem and I'll give you general farming advice!"
S_chat_demo ==
    <<"A", "g", "r", "i", "U", "s", "t", "a", "a", "d", " ", "A", "I", " ", "i", "s", " ", "i", "n",
      " ", "d", "e", "m", "o", " ", "m", "o", "d", "e", ".", " ", "D", "e", "s", "c", "r", "i", "b",
      "e", " ", "y", "o", "u", "r", " ", "c", "r", "o", "p", " ", "p", "r", "o", "b", "l", "e", "m",
      " ", "a", "n", "d", " ", "I", "'", "l", "l", " ", "g", "i", "v", "e", " ", "y", "o", "u", " ",
      "g", "e", "n", "e", "r", "a", "l", " ", "f", "a", "r", "m", "i", "n", "g", " ", "a", "d", "v",
      "i", "c", "e", "!">>
\* "I'm having trouble connecting right now. Please try asking again, or describe your crop problem in more detail."
S_chat_trouble ==
    <<"I", "'", "m", " ", "h", "a", "v", "i", "n", "g", " ", "t", "r", "o", "u", "b", "l", "e", " ",
      "c", "o", "n", "n", "e", "c", "t", "i", "n", "g", " ", "r", "i", "g", "h", "t", " ", "n", "o",
      "w", ".", " ", "P", "l", "e", "a", "s", "e", " ", "t", "r", "y", " ", "a", "s", "k", "i", "n",
      "g", " ", "a", "g", "a", "i", "n", ",", " ", "o", "r", " ", "d", "e", "s", "c", "r", "i", "b",
      "e", " ", "y", "o", "u", "r", " ", "c", "r", "o", "p", " ", "p", "r", "o", "b", "l", "e", "m",
      " ", "i", "n", " ", "m", "o", "r", "e", " ", "d", "e", "t", "a", "i", "l", ".">>

\* timestamp.isoformat(): the clock counts ticks, and the text of a tick is its digits
IsoFormat(t) == NatStr(t)

\* a slip: the stored texts are returned as they are, without json.loads
to_dict_unparsed(row) ==
    [id |-> row.id,
     timestamp |-> PyStr(IsoFormat(row.timestamp) \o S_Z),
     latitude |-> row.latitude,
     longitude |-> row.longitude,
     disease_name |-> row.disease_name,
     severity_score |-> row.severity_score,
     symptoms |-> row.symptoms,
     treatment_advice |-> row.treatment_advice,
     weather_summary |-> row.weather_summary,
     spray_status |-> row.spray_status,
     execution_plan |-> row.execution_plan,
     image_filename |-> row.image_filename]

\* ScanRecord.to_dict() of a row written by analyze (symptoms and weather_summary hold
\* the output of json.dumps, which json.loads accepts)
to_dict(row) ==
    [id |-> row.id,
     timestamp |-> PyStr(IsoFormat(row.timestamp) \o S_Z),
     latitude |-> row.latitude,
     longitude |-> row.longitude,
     disease_name |-> row.disease_name,
     severity_score |-> row.severity_score,
     symptoms |-> JsonLoads(row.symptoms),
     treatment_advice |-> row.treatment_advice,
     weather_summary |-> JsonLoads(row.weather_summary),
     spray_status |-> row.spray_status,
     execution_plan |-> row.execution_plan,
     image_filename |-> row.image_filename]

\* .limit(500)
ScanLimit == 500

\* a slip: ascending order
OlderFirst(a, b) == a.timestamp < b.timestamp

\* ScanRecord.timestamp.desc(): row a comes before row b
NewerFirst(a, b) == a.timestamp > b.timestamp

\* query(ScanRecord).order_by(ScanRecord.timestamp.desc()).limit(limit).all(), for a
\* table whose timestamps are distinct (SQL leaves the order of equal keys open)
NewestFirst(store, limit) ==
    SubSeq(SortSeq(store, NewerFirst), 1, IF Len(store) < limit THEN Len(store) ELSE limit)

\* jsonify({"count": len(records), "scans": [r.to_dict() for r in records]})
ScansResponse(rows) ==
    [status |-> 200,
     body |-> [count |-> Len(rows), scans |-> [k \in 1..Len(rows) |-> to_dict(rows[k])]]]

\* api_scans()
api_scans(store) == ScansResponse(NewestFirst(store, ScanLimit))

\* download_report(scan_id): 404 without the row; otherwise the PDF, held as the dict it
\* is generated from
download_report(scan_id, store) ==
    IF \A i \in 1..Len(store) : store[i].id # scan_id
    THEN [status |-> 404]
    ELSE [status |-> 200,
          body |-> [content_type |-> "application/pdf",
                    passport |-> to_dict(store[CHOOSE i \in 1..Len(store) :
                                                   store[i].id = scan_id])]]

\* history(): the page rendered with scan_count
history(store) == [status |-> 200, body |-> [scan_count |-> Len(store)]]

\* chat_with_agronomist(user_message).  gemini[i] is what model MODELS_TO_TRY[i] does:
\* [ok |-> FALSE] or [ok |-> TRUE, reply |-> text], text being response.text.strip()
chat_with_agronomist(gemini) ==
    [reply |-> IF _generate_with_fallback(gemini).outcome.raised
               THEN S_chat_trouble
               ELSE _generate_with_fallback(gemini).outcome.value,
     calls |-> [i \in 1..Len(_generate_with_fallback(gemini).models) |->
                   [call |-> "gemini",
                    model |-> _generate_with_fallback(gemini).models[i],
                    reply |-> gemini[i]]]]

\* the reply of chat_api, chat being what chat_with_agronomist did
ChatReply(chat) ==
    [response |-> [status |-> 200,
                   body |-> [reply |-> IF chat.reply = S_empty THEN S_chat_demo
                                       ELSE chat.reply]],
     calls |-> chat.calls]

\* chat_api()
chat_api(available, gemini) ==
    IF available THEN ChatReply(chat_with_agronomist(gemini))
    ELSE [response |-> [status |-> 200, body |-> [reply |-> S_chat_demo]], calls |-> <<>>]

(***************************************************************************)
(* auth.py: recommend                                                      *)
(***************************************************************************)
\* "Loamy"
S_Loamy ==
    <<"L", "o", "a", "m", "y">>
\* "Rain-fed"
S_Rain_fed ==
    <<"R", "a", "i", "n", "-", "f", "e", "d">>
\* "Excellent for "
S_Excellent_for ==
    <<"E", "x", "c", "e", "l", "l", "e", "n", "t", " ", "f", "o", "r", " ">>
\* " soil with "
S_soil_with ==
    <<" ", "s", "o", "i", "l", " ", "w", "i", "t", "h", " ">>
\* " irrigation"
S_irrigation ==
    <<" ", "i", "r", "r", "i", "g", "a", "t", "i", "o", "n">>
\* "Paddy (Short Duration)"
S_Paddy ==
    <<"P", "a", "d", "d", "y", " ", "(", "S", "h", "o", "r", "t", " ", "D", "u", "r", "a", "t", "i",
      "o", "n", ")">>
\* "Profile not found."
S_Profile_not_found ==
    <<"P", "r", "o", "f", "i", "l", "e", " ", "n", "o", "t", " ", "f", "o", "u", "n", "d", ".">>
\* "Authentication required."
S_Authentication_required ==
    <<"A", "u", "t", "h", "e", "n", "t", "i", "c", "a", "t", "i", "o", "n", " ", "r", "e", "q", "u",
      "i", "r", "e", "d", ".">>

\* initialize_gemini(): the client is created, or ValueError without GEMINI_API_KEY
initialize_gemini(api_key) == IF api_key THEN Return("Client") ELSE Raise("ValueError")

\* _generate_with_fallback(contents) from its first statement: client is whether the
\* module's client is set, api_key whether GEMINI_API_KEY is
GenerateWithFallback(client, api_key, gemini) ==
    IF ~client /\ initialize_gemini(api_key).raised
    THEN [outcome |-> initialize_gemini(api_key), models |-> <<>>]
    ELSE _generate_with_fallback(gemini)

\* the entries of profile_ctx that _demo_recommendation reads
ProfileContext(p) ==
    [soil_type |-> IF Truthy(p.soil_type) THEN p.soil_type ELSE PyStr(S_Loamy),
     irrigation |-> IF Truthy(p.irrigation) THEN p.irrigation ELSE PyStr(S_Rain_fed)]

\* _demo_recommendation(ctx): its first crop, the one entry that depends on ctx; the
\* other entries are constants
_demo_recommendation(ctx) ==
    [top_crops |->
        PyList(<<[name |-> PyStr(S_Paddy),
                  suitability_score |-> PyInt(88),
                  reason |-> PyStr(S_Excellent_for
                                   \o Str(Get(ctx, "soil_type", PyStr(S_Loamy)))
                                   \o S_soil_with
                                   \o Str(Get(ctx, "irrigation", PyStr(S_Rain_fed)))
                                   \o S_irrigation)]>>)]

\* the try block of recommend.  generated is what _generate_with_fallback did; a reply
\* is held as what re.search(r'\{.*\}') and json.loads make of it: [json |-> "none"]
\* without a {...} block, [json |-> "invalid"] when json.loads raises, otherwise
\* [json |-> "object", result |-> dict]
Recommendation(ctx, generated, gemini) ==
    [response |->
        [status |-> 200,
         body |-> IF generated.outcome.raised \/ generated.outcome.value.json = "invalid"
                  THEN [success |-> TRUE, recommendation |-> _demo_recommendation(ctx),
                        demo |-> TRUE]
                  ELSE [success |-> TRUE,
                        recommendation |->
                            IF generated.outcome.value.json = "none"
                            THEN _demo_recommendation(ctx)
                            ELSE generated.outcome.value.result,
                        demo |-> FALSE]],
     calls |-> [i \in 1..Len(generated.models) |->
                   [call |-> "gemini", model |-> generated.models[i], reply |-> gemini[i]]]]

\* recommend() under @login_required.  req.logged_in: the session holds user_id;
\* req.profile: the user's FarmerProfile, or None
recommend(req, client, api_key, gemini) ==
    IF ~req.logged_in THEN
        [response |-> [status |-> 401, body |-> [error |-> S_Authentication_required]],
         calls |-> <<>>]
    ELSE IF req.profile = PyNone THEN
        [response |-> [status |-> 404, body |-> [error |-> S_Profile_not_found]],
         calls |-> <<>>]
    ELSE Recommendation(ProfileContext(req.profile),
                        GenerateWithFallback(client, api_key, gemini), gemini)

(***************************************************************************)
(* State.                                                                  *)
(***************************************************************************)
VARIABLES
    spray_call,         \* the last call of _calculate_spray_status: arguments and result
    plan_call,          \* a call of build_execution_plan: arguments and, once made, result
    enrich_call,        \* a call of enrich_weather_from_openmeteo, likewise
    generate_call,      \* a call of _generate_with_fallback: how far it has got
    gemini_available,   \* _gemini_available, set once at start-up
    records,            \* the scan_records table, in insertion order
    clock,              \* the time of the last insertion
    request,            \* the POST /analyze request handled last
    response,           \* its response
    trace               \* the calls it made to the collaborators, in order

pure_vars == <<spray_call, plan_call, enrich_call, generate_call>>

http_vars == <<gemini_available, records, clock, request, response, trace>>

vars == <<spray_call, plan_call, enrich_call, generate_call, gemini_available, records,
         clock, request, response, trace>>

NoCall == [called |-> FALSE]

NoRequest == [sent |-> FALSE]

NoResponse == [status |-> 0]

\* the server before any request, with the AI client not initialised
HttpIdle ==
    /\ gemini_available = FALSE
    /\ records = <<>>
    /\ clock = 0
    /\ request = NoRequest
    /\ response = NoResponse
    /\ trace = <<>>

(***************************************************************************)
(* The classifier applied to inputs around its thresholds.                 *)
(***************************************************************************)
Around(threshold) == {threshold + d : d \in (-ThresholdMargin)..ThresholdMargin}

RainProbInputs == {0, 1000} \cup Around(RAIN_PROB_SAFE) \cup Around(RAIN_PROB_CAUTION)

WindKmhInputs == {0, 4000} \cup Around(WIND_SAFE_KMH) \cup Around(WIND_CAUTION_KMH)

CalculateSprayStatus ==
    /\ \E rain_prob \in RainProbInputs, wind_kmh \in WindKmhInputs :
          spray_call' = [called |-> TRUE, rain_prob |-> rain_prob, wind_kmh |-> wind_kmh,
                         result |-> _calculate_spray_status(rain_prob, wind_kmh)]
    /\ UNCHANGED <<plan_call, enrich_call, generate_call, http_vars>>

InitClassifier ==
    /\ spray_call = NoCall
    /\ plan_call = NoCall
    /\ enrich_call = NoCall
    /\ generate_call = NoCall
    /\ HttpIdle

NextClassifier == CalculateSprayStatus

SpecClassifier == InitClassifier /\ [][NextClassifier]_vars

(***************************************************************************)
(* The plan builder applied to loosely typed mappings.                     *)
(***************************************************************************)
\* "Late Blight"
S_Late_Blight ==
    <<"L", "a", "t", "e", " ", "B", "l", "i", "g", "h", "t">>
\* "yield estimation"
S_yield_estimation_lc ==
    <<"y", "i", "e", "l", "d", " ", "e", "s", "t", "i", "m", "a", "t", "i", "o", "n">>
\* "Apply fungicide"
S_Apply_fungicide ==
    <<"A", "p", "p", "l", "y", " ", "f", "u", "n", "g", "i", "c", "i", "d", "e">>
\* "40 tomatoes"
S_40_tomatoes ==
    <<"4", "0", " ", "t", "o", "m", "a", "t", "o", "e", "s">>
\* "Sell within 3 days."
S_Sell_now ==
    <<"S", "e", "l", "l", " ", "w", "i", "t", "h", "i", "n", " ", "3", " ", "d", "a", "y", "s",
      ".">>
\* "Clay Loam"
S_Clay_Loam ==
    <<"C", "l", "a", "y", " ", "L", "o", "a", "m">>
\* "Low"
S_Low ==
    <<"L", "o", "w">>
\* "High wind"
S_High_wind ==
    <<"H", "i", "g", "h", " ", "w", "i", "n", "d">>
\* "GREEN"
S_GREEN ==
    <<"G", "R", "E", "E", "N">>
\* "Yellow"
S_Yellow ==
    <<"Y", "e", "l", "l", "o", "w">>
\* "storm"
S_storm ==
    <<"s", "t", "o", "r", "m">>
\* "DO NOT SPRAY"
S_DO_NOT_SPRAY ==
    <<"D", "O", " ", "N", "O", "T", " ", "S", "P", "R", "A", "Y">>
\* "Spray immediately"
S_Spray_immediately ==
    <<"S", "p", "r", "a", "y", " ", "i", "m", "m", "e", "d", "i", "a", "t", "e", "l", "y">>

Absent == [t |-> "absent"]

\* the dict holding the keys of r that are not Absent
Present(r) == [k \in {k \in DOMAIN r : r[k] # Absent} |-> r[k]]

DiagnosisInputs ==
    {Present(r) : r \in
        [disease_name : {Absent, PyNone, PyStr(S_Late_Blight), PyStr(S_Yield_Estimation),
                         PyStr(S_yield_estimation_lc), PyStr(S_Soil_Analysis)},
         severity_score : {Absent, PyNone, PyInt(70)},
         treatment_advice : {Absent, PyStr(S_Apply_fungicide)},
         yield_estimate : {Absent, PyStr(S_40_tomatoes)},
         market_advice : {Absent, PyStr(S_Sell_now)},
         soil_type : {Absent, PyStr(S_Clay_Loam)},
         moisture_level : {Absent, PyStr(S_Low)}]}

WeatherInputs ==
    {Present(r) : r \in
        [spray_status : {Absent, PyNone, PyInt(1), PyStr(S_empty), PyStr(S_green),
                         PyStr(S_GREEN), PyStr(S_yellow), PyStr(S_Yellow), PyStr(S_red),
                         PyStr(S_unknown), PyStr(S_storm)},
         status_reason : {Absent, PyStr(S_High_wind)}]}

\* a slip: the status is put into lower case in the caller's mapping, the way
\* enrich_weather_from_openmeteo does
BuildExecutionPlanInPlace ==
    /\ ~plan_call.called
    /\ "diagnosis" \in DOMAIN plan_call
    /\ plan_call' =
           [plan_call EXCEPT
                !.called = TRUE,
                !.weather =
                    IF IsStr(Get(plan_call.weather, "spray_status", PyNone))
                    THEN [plan_call.weather EXCEPT
                              !["spray_status"] = PyStr(Lower(@.s))]
                    ELSE plan_call.weather]
           @@ [result |-> build_execution_plan(plan_call.diagnosis, plan_call.weather)]
    /\ UNCHANGED <<spray_call, enrich_call, generate_call, http_vars>>

BuildExecutionPlan ==
    /\ ~plan_call.called
    /\ "diagnosis" \in DOMAIN plan_call
    /\ plan_call' = [plan_call EXCEPT !.called = TRUE] @@
                    [result |-> build_execution_plan(plan_call.diagnosis, plan_call.weather)]
    /\ UNCHANGED <<spray_call, enrich_call, generate_call, http_vars>>

InitPlan ==
    /\ spray_call = NoCall
    /\ plan_call \in {[called |-> FALSE, diagnosis |-> d, weather |-> w] :
                        d \in DiagnosisInputs, w \in WeatherInputs}
    /\ enrich_call = NoCall
    /\ generate_call = NoCall
    /\ HttpIdle

NextPlan == BuildExecutionPlan

SpecPlan == InitPlan /\ [][NextPlan]_vars

(***************************************************************************)
(* One POST /analyze request, with every behaviour of the collaborators.   *)
(***************************************************************************)
\* "leaf.jpg"
S_leaf_jpg ==
    <<"l", "e", "a", "f", ".", "j", "p", "g">>
\* "0"
S_lat_0 ==
    <<"0">>
\* "12.5"
S_lat_12_5 ==
    <<"1", "2", ".", "5">>
\* "77.2"
S_lon_77_2 ==
    <<"7", "7", ".", "2">>
\* "abc"
S_abc ==
    <<"a", "b", "c">>
\* "Unknown"
S_Unknown_disease ==
    <<"U", "n", "k", "n", "o", "w", "n">>
\* "API key not valid"
S_API_key_invalid ==
    <<"A", "P", "I", " ", "k", "e", "y", " ", "n", "o", "t", " ", "v", "a", "l", "i", "d">>
\* "Leaf Rust"
S_Rust ==
    <<"L", "e", "a", "f", " ", "R", "u", "s", "t">>
\* "Approx 45 visible tomatoes"
S_tomatoes_45 ==
    <<"A", "p", "p", "r", "o", "x", " ", "4", "5", " ", "v", "i", "s", "i", "b", "l", "e", " ", "t",
      "o", "m", "a", "t", "o", "e", "s">>
\* "Harvest in 3 days for peak price"
S_Harvest_3_days ==
    <<"H", "a", "r", "v", "e", "s", "t", " ", "i", "n", " ", "3", " ", "d", "a", "y", "s", " ", "f",
      "o", "r", " ", "p", "e", "a", "k", " ", "p", "r", "i", "c", "e">>
\* "Prepare storage crates."
S_Prepare_crates ==
    <<"P", "r", "e", "p", "a", "r", "e", " ", "s", "t", "o", "r", "a", "g", "e", " ", "c", "r", "a",
      "t", "e", "s", ".">>
\* "Brown lesions on leaves"
S_Brown_lesions ==
    <<"B", "r", "o", "w", "n", " ", "l", "e", "s", "i", "o", "n", "s", " ", "o", "n", " ", "l", "e",
      "a", "v", "e", "s">>
\* "White mould under leaves"
S_White_mould ==
    <<"W", "h", "i", "t", "e", " ", "m", "o", "u", "l", "d", " ", "u", "n", "d", "e", "r", " ", "l",
      "e", "a", "v", "e", "s">>

\* "Quota exceeded, retry later"
S_Quota_exceeded ==
    <<"Q", "u", "o", "t", "a", " ", "e", "x", "c", "e", "e", "d", "e", "d", ",", " ", "r", "e", "t",
      "r", "y", " ", "l", "a", "t", "e", "r">>

\* the forms: lat and lon missing, blank, zero, a position, or not a number
AnalyzeForms ==
    {Present(r) : r \in
        [lat : {Absent, PyStr(S_empty), PyStr(S_lat_0), PyStr(S_lat_12_5), PyStr(S_abc)},
         lon : {Absent, PyStr(S_empty), PyStr(S_lat_0), PyStr(S_lon_77_2), PyStr(S_abc)}]}

AnalyzeRequests ==
    {[sent |-> TRUE, route |-> "/analyze", has_image |-> i, filename |-> PyStr(S_leaf_jpg),
      form |-> f] :
        i \in BOOLEAN, f \in AnalyzeForms}

\* what a model's reply parses to
GeminiReplies ==
    {[json |-> "invalid"], [json |-> "array"]} \cup
    {[json |-> "object", result |-> d] : d \in
        {[disease_name |-> PyStr(S_Rust), severity_score |-> PyInt(40),
          symptoms |-> PyList(<<PyStr(S_Brown_lesions), PyStr(S_White_mould)>>),
          treatment_advice |-> PyStr(S_Apply_fungicide)],
         [disease_name |-> PyStr(S_Yield_Estimation), severity_score |-> PyInt(0),
          yield_estimate |-> PyStr(S_tomatoes_45),
          market_advice |-> PyStr(S_Harvest_3_days),
          treatment_advice |-> PyStr(S_Prepare_crates)],
         [disease_name |-> PyStr(S_Rust), severity_score |-> PyNone,
          treatment_advice |-> PyStr(S_Apply_fungicide)],
         [disease_name |-> PyStr(S_Unknown_disease), severity_score |-> PyInt(0),
          treatment_advice |-> PyStr(S_empty)],
         [disease_name |-> PyStr(S_API_key_invalid), severity_score |-> PyInt(0)],
         [disease_name |-> PyStr(S_Rust), severity_score |-> PyInt(40),
          treatment_advice |-> PyStr(S_Quota_exceeded)],
         [disease_name |-> PyStr(S_empty), severity_score |-> PyInt(10)]}}

\* the first `failing` models fail, the next one answers with reply
GeminiAnswersAfter(failing, reply) ==
    [i \in 1..Len(MODELS_TO_TRY) |->
        IF i = failing + 1 THEN [ok |-> TRUE, reply |-> reply] ELSE [ok |-> FALSE]]

GeminiBehaviours ==
    {GeminiAnswersAfter(failing, reply) :
        failing \in 0..(Len(MODELS_TO_TRY) - 1), reply \in GeminiReplies}
    \cup {[i \in 1..Len(MODELS_TO_TRY) |-> [ok |-> FALSE]]}

OwmInterval(pop, wind_ms, temp, humidity, rain_mm) ==
    [pop |-> pop, wind_ms |-> wind_ms, temp |-> temp, humidity |-> humidity,
     rain_mm |-> rain_mm]

OwmBehaviours ==
    {[kind |-> "no_key"], [kind |-> "timeout"],
     [kind |-> "http_error", code |-> 401], [kind |-> "http_error", code |-> 503]}
    \cup
    {[kind |-> "ok", data |-> [list |-> l]] : l \in
        {<<>>,
         <<OwmInterval(100, 20, 241, 60, 0)>>,
         <<OwmInterval(300, 30, 280, 55, 0), OwmInterval(700, 80, 251, 70, 25)>>,
         <<OwmInterval(0, 50, 0, 80, 0)>>}}

MeteoBehaviours ==
    {[kind |-> "fail"]} \cup
    {[kind |-> "ok", temp_max |-> shape.temp_max, temp_min |-> shape.temp_min,
      hum_list |-> shape.hum_list, wind |-> wind, rainfall |-> rainfall] :
        shape \in {[temp_max |-> PyFloat(305), temp_min |-> PyFloat(215),
                    hum_list |-> <<60, 71>>],
                   [temp_max |-> PyNone, temp_min |-> PyNone, hum_list |-> <<>>]},
        wind \in {PyNone, PyFloat(100), PyFloat(150), PyFloat(300)},
        rainfall \in {PyNone, PyFloat(20), PyFloat(50), PyFloat(200)}}

NotAsked == [kind |-> "not_asked"]

\* the row of an earlier request: an image without coordinates, the AI client not
\* initialised
EarlierScan ==
    analyze([sent |-> TRUE, has_image |-> TRUE, filename |-> PyStr(S_leaf_jpg),
             form |-> <<>>],
            FALSE, NotAsked, NotAsked, NotAsked, <<>>, 1).store[1]

\* the tables the request may find: empty, or holding the scan of an earlier request
InitialStores == {<<>>, <<EarlierScan>>}

\* the response to req and the state the view leaves, run being what analyze did
Respond(req, run) ==
    /\ request' = req
    /\ response' = handle_errors(run.outcome)
    /\ records' = run.store
    /\ clock' = IF run.store = records THEN clock ELSE clock + 1
    /\ trace' = run.calls
    /\ UNCHANGED <<gemini_available, pure_vars>>

\* the request req is handled while the collaborators behave as gemini, owm and meteo
AnalyzeRequest(req, gemini, owm, meteo) ==
    Respond(req, analyze(req, gemini_available, gemini, owm, meteo, records, clock + 1))

\* the collaborators a request gets as far as asking
ReachesCollaborators(req) ==
    /\ req.has_image
    /\ ~FormFloat(Get(req.form, "lat", PyNone)).raised
    /\ ~FormFloat(Get(req.form, "lon", PyNone)).raised

AsksGemini(req) == ReachesCollaborators(req) /\ gemini_available

AsksOwm(req) ==
    /\ ReachesCollaborators(req)
    /\ CoordinatesGiven(FormFloat(Get(req.form, "lat", PyNone)).value,
                        FormFloat(Get(req.form, "lon", PyNone)).value)

AsksMeteo(req, owm) ==
    AsksOwm(req) /\ NeedsEnrichment(Forecast(fetch_weather_forecast(owm)))

Analyze ==
    /\ ~request.sent
    /\ \E req \in AnalyzeRequests :
         \E gemini \in IF AsksGemini(req) THEN GeminiBehaviours ELSE {NotAsked} :
           \E owm \in IF AsksOwm(req) THEN OwmBehaviours ELSE {NotAsked} :
             \E meteo \in IF AsksMeteo(req, owm) THEN MeteoBehaviours ELSE {NotAsked} :
               AnalyzeRequest(req, gemini, owm, meteo)

InitAnalyze ==
    /\ spray_call = NoCall
    /\ plan_call = NoCall
    /\ enrich_call = NoCall
    /\ generate_call = NoCall
    /\ gemini_available \in BOOLEAN
    /\ records \in InitialStores
    /\ clock = Len(records)
    /\ request = NoRequest
    /\ response = NoResponse
    /\ trace = <<>>

NextAnalyze == Analyze

SpecAnalyze == InitAnalyze /\ [][NextAnalyze]_vars

(***************************************************************************)
(* The server handling one request after another.                          *)
(***************************************************************************)
MaxRecords == 2

\* "Water early in the morning."
S_Water_early ==
    <<"W", "a", "t", "e", "r", " ", "e", "a", "r", "l", "y", " ", "i", "n", " ", "t", "h", "e", " ",
      "m", "o", "r", "n", "i", "n", "g", ".">>

\* the requests sent to /analyze: without coordinates, with a position, with a
\* latitude that is not a number
ServerRequests ==
    {req \in AnalyzeRequests :
        req.form \in {Present([lat |-> Absent, lon |-> Absent]),
                      Present([lat |-> PyStr(S_lat_12_5), lon |-> PyStr(S_lon_77_2)]),
                      Present([lat |-> PyStr(S_abc), lon |-> Absent])}}

\* every model fails, or the first one answers with a Leaf Rust diagnosis
ServerGeminiBehaviours ==
    {g \in GeminiBehaviours :
        /\ ~g[2].ok
        /\ ~g[3].ok
        /\ g[1].ok => /\ g[1].reply.json = "object"
                      /\ Get(g[1].reply.result, "treatment_advice", PyNone)
                             = PyStr(S_Apply_fungicide)}

ServerOwmBehaviours == {[kind |-> "no_key"], [kind |-> "timeout"]}

ServerMeteoBehaviours == {[kind |-> "fail"]}

\* what the models do for a chat prompt
ChatBehaviours ==
    {[i \in 1..Len(MODELS_TO_TRY) |-> [ok |-> FALSE]]}
    \cup
    {[i \in 1..Len(MODELS_TO_TRY) |->
         IF i = failing + 1 THEN [ok |-> TRUE, reply |-> text] ELSE [ok |-> FALSE]] :
        failing \in 0..1, text \in {S_Water_early, S_empty}}

PostAnalyze ==
    /\ Len(records) < MaxRecords
    /\ \E req \in ServerRequests :
         \E gemini \in IF AsksGemini(req) THEN ServerGeminiBehaviours ELSE {NotAsked} :
           \E owm \in IF AsksOwm(req) THEN ServerOwmBehaviours ELSE {NotAsked} :
             \E meteo \in IF AsksMeteo(req, owm) THEN ServerMeteoBehaviours
                           ELSE {NotAsked} :
               AnalyzeRequest(req, gemini, owm, meteo)

GetApiScans ==
    /\ request' = [sent |-> TRUE, route |-> "/api/scans"]
    /\ response' = api_scans(records)
    /\ trace' = <<>>
    /\ UNCHANGED <<records, clock, gemini_available, pure_vars>>

GetReport ==
    \E scan_id \in 1..(MaxRecords + 1) :
        /\ request' = [sent |-> TRUE, route |-> "/report", scan_id |-> scan_id]
        /\ response' = download_report(scan_id, records)
        /\ trace' = <<>>
        /\ UNCHANGED <<records, clock, gemini_available, pure_vars>>

GetHistory ==
    /\ request' = [sent |-> TRUE, route |-> "/history"]
    /\ response' = history(records)
    /\ trace' = <<>>
    /\ UNCHANGED <<records, clock, gemini_available, pure_vars>>

\* the reply to a chat request, chat being what chat_api did
AnswerChat(chat) ==
    /\ request' = [sent |-> TRUE, route |-> "/api/chat"]
    /\ response' = chat.response
    /\ trace' = chat.calls
    /\ UNCHANGED <<records, clock, gemini_available, pure_vars>>

PostChat ==
    \E gemini \in IF gemini_available THEN ChatBehaviours ELSE {NotAsked} :
        AnswerChat(chat_api(gemini_available, gemini))

InitServer ==
    /\ spray_call = NoCall
    /\ plan_call = NoCall
    /\ enrich_call = NoCall
    /\ generate_call = NoCall
    /\ gemini_available \in BOOLEAN
    /\ records = <<>>
    /\ clock = 0
    /\ request = NoRequest
    /\ response = NoResponse
    /\ trace = <<>>

NextServer == PostAnalyze \/ GetApiScans \/ GetReport \/ GetHistory \/ PostChat

SpecServer == InitServer /\ [][NextServer]_vars

(***************************************************************************)
(* GET /api/scans on tables around the limit of 500 rows.                  *)
(***************************************************************************)
SmallStores == 3

OverLimit == 2

\* the row with key id written at time timestamp
ScanRow(id, timestamp) == [EarlierScan EXCEPT !.id = id, !.timestamp = timestamp]

\* a table of n rows with distinct timestamps.  The wall clock of datetime.now() is not
\* monotonic: it was set back once, after the first k rows, so that these carry the
\* latest timestamps (k = 0: the timestamps follow the order of insertion)
SteppedBack(n, k) ==
    [i \in 1..n |-> ScanRow(i, IF i <= k THEN (n - k) + i ELSE i - k)]

StoreSizes == (0..SmallStores) \cup ((ScanLimit - OverLimit)..(ScanLimit + OverLimit))

\* where the clock was set back
StepPoints == {0, 1, 2, 250, 499}

ScanStores ==
    {<<>>} \cup
    UNION {{SteppedBack(n, k) : k \in StepPoints \cap (0..(n - 1))} : n \in StoreSizes}

InitScans ==
    /\ spray_call = NoCall
    /\ plan_call = NoCall
    /\ enrich_call = NoCall
    /\ generate_call = NoCall
    /\ gemini_available \in BOOLEAN
    /\ records \in ScanStores
    /\ clock = Len(records)
    /\ request = NoRequest
    /\ response = NoResponse
    /\ trace = <<>>

NextScans == GetApiScans

SpecScans == InitScans /\ [][NextScans]_vars

(***************************************************************************)
(* The enrichment applied to weather dicts that carry some of the fields.  *)
(***************************************************************************)
\* "Unknown"
S_Unknown_status ==
    <<"U", "n", "k", "n", "o", "w", "n">>

EnrichFields == {"temp_max", "temp_min", "humidity", "rainfall", "wind_speed"}

EnrichInputs ==
    {Present(r) : r \in
        [temp_max : {Absent, PyFloat(0), PyFloat(281)},
         temp_min : {Absent, PyFloat(150)},
         humidity : {Absent, PyInt(70)},
         rainfall : {Absent, PyFloat(0)},
         wind_speed : {Absent, PyFloat(92)},
         spray_status : {Absent, PyStr(S_GREEN), PyStr(S_yellow), PyStr(S_unknown),
                         PyStr(S_Unknown_status)},
         status_reason : {Absent, PyStr(S_High_wind)}]}

EnrichWeather ==
    /\ ~enrich_call.called
    /\ "weather" \in DOMAIN enrich_call
    /\ \E meteo \in IF NeedsEnrichment(enrich_call.weather)
                     THEN MeteoBehaviours ELSE {NotAsked} :
          enrich_call' = [enrich_call EXCEPT !.called = TRUE] @@
                         [meteo |-> meteo,
                          result |-> enrich_weather_from_openmeteo(enrich_call.weather,
                                                                   meteo).outcome]
    /\ UNCHANGED <<spray_call, plan_call, generate_call, http_vars>>

InitEnrich ==
    /\ spray_call = NoCall
    /\ plan_call = NoCall
    /\ enrich_call \in {[called |-> FALSE, weather |-> w] : w \in EnrichInputs}
    /\ generate_call = NoCall
    /\ HttpIdle

NextEnrich == EnrichWeather

SpecEnrich == InitEnrich /\ [][NextEnrich]_vars

(***************************************************************************)
(* Claims.                                                                 *)
(***************************************************************************)
(***************************************************************************)
(* build_execution_plan called twice with the same mappings, the server    *)
(* handling requests between the two calls.                                *)
(***************************************************************************)
\* a disease diagnosis and a yield report; a status in capitals, a status that is not a
\* str, and an advisory without a status
PlanCallInputs ==
    {[called |-> FALSE, diagnosis |-> d, weather |-> w] :
        d \in {Present([disease_name |-> PyStr(S_Late_Blight), severity_score |-> PyInt(70),
                        treatment_advice |-> PyStr(S_Apply_fungicide)]),
               Present([disease_name |-> PyStr(S_Yield_Estimation),
                        yield_estimate |-> PyStr(S_40_tomatoes)])},
        w \in {Present([spray_status |-> PyStr(S_GREEN), status_reason |-> PyStr(S_High_wind)]),
               Present([spray_status |-> PyInt(1), status_reason |-> Absent]),
               Present([spray_status |-> Absent, status_reason |-> Absent])}}

\* the server has handled requests since the first call
BetweenPlanCalls == plan_call.called /\ "again" \notin DOMAIN plan_call

\* the second call, with the mappings the first call was given
BuildExecutionPlanAgain ==
    /\ BetweenPlanCalls
    /\ plan_call' = plan_call @@
                    [again |-> build_execution_plan(plan_call.diagnosis, plan_call.weather)]
    /\ UNCHANGED <<spray_call, enrich_call, generate_call, http_vars>>

RequestBetweenPlanCalls == BetweenPlanCalls /\ NextServer

InitPlanCalls ==
    /\ spray_call = NoCall
    /\ plan_call \in PlanCallInputs
    /\ enrich_call = NoCall
    /\ generate_call = NoCall
    /\ gemini_available \in BOOLEAN
    /\ records = <<>>
    /\ clock = 0
    /\ request = NoRequest
    /\ response = NoResponse
    /\ trace = <<>>

NextPlanCalls == BuildExecutionPlan \/ RequestBetweenPlanCalls \/ BuildExecutionPlanAgain

SpecPlanCalls == InitPlanCalls /\ [][NextPlanCalls]_vars


(***************************************************************************)
(* ai_service.py: _generate_with_fallback, one step per statement of its   *)
(* loop.                                                                   *)
(***************************************************************************)
\* the characters str.strip() removes
Whitespace == {" ", "\t", "\n", "\r"}

RECURSIVE LStrip(_)
LStrip(s) == IF s # <<>> /\ Head(s) \in Whitespace THEN LStrip(Tail(s)) ELSE s

RECURSIVE RStrip(_)
RStrip(s) ==
    IF s # <<>> /\ s[Len(s)] \in Whitespace THEN RStrip(SubSeq(s, 1, Len(s) - 1)) ELSE s

\* s.strip()
Strip(s) == RStrip(LStrip(s))

\* what generate_content does for one model: it raises, it returns a response whose
\* text is None, or it returns a response with a text
GenerateReplies ==
    {[kind |-> "error"], [kind |-> "no_text"]} \cup
    {[kind |-> "text", text |-> t] :
        t \in {S_Water_early, <<" ">> \o S_Water_early \o <<"\n">>, S_empty}}

\* the calls of _generate_with_fallback: the client set or not, GEMINI_API_KEY set or
\* not, and what each model of MODELS_TO_TRY does if it is called
GenerateCalls ==
    {[called |-> TRUE, pc |-> "start", client |-> c, api_key |-> k, gemini |-> g,
      tried |-> <<>>] :
        c \in BOOLEAN, k \in BOOLEAN,
        g \in [1..Len(MODELS_TO_TRY) -> GenerateReplies]}

\* if not client: initialize_gemini()
GenerateStart ==
    /\ generate_call.pc = "start"
    /\ generate_call' =
           IF generate_call.client THEN [generate_call EXCEPT !.pc = "loop"]
           ELSE IF initialize_gemini(generate_call.api_key).raised
           THEN [generate_call EXCEPT !.pc = "done"]
                @@ [outcome |-> initialize_gemini(generate_call.api_key)]
           ELSE [generate_call EXCEPT !.pc = "loop", !.client = TRUE]
    /\ UNCHANGED <<spray_call, plan_call, enrich_call, http_vars>>

\* a slip: the list is walked from its end
GenerateTryBackwards ==
    /\ generate_call.pc = "loop"
    /\ Len(generate_call.tried) < Len(MODELS_TO_TRY)
    /\ LET i == Len(MODELS_TO_TRY) - Len(generate_call.tried)
           reply == generate_call.gemini[i]
           tried == Append(generate_call.tried, MODELS_TO_TRY[i])
       IN  generate_call' =
               IF reply.kind = "text"
               THEN [generate_call EXCEPT !.pc = "done", !.tried = tried]
                    @@ [outcome |-> Return(Strip(reply.text))]
               ELSE [generate_call EXCEPT !.tried = tried]
    /\ UNCHANGED <<spray_call, plan_call, enrich_call, http_vars>>

\* one pass of `for model_name in MODELS_TO_TRY`: generate_content is called for the
\* next model; response.text.strip() is returned, or the exception (of the call, or of
\* .strip() on None) is swallowed and the loop goes on
GenerateTry ==
    /\ generate_call.pc = "loop"
    /\ Len(generate_call.tried) < Len(MODELS_TO_TRY)
    /\ LET i == Len(generate_call.tried) + 1
           reply == generate_call.gemini[i]
           tried == Append(generate_call.tried, MODELS_TO_TRY[i])
       IN  generate_call' =
               IF reply.kind = "text"
               THEN [generate_call EXCEPT !.pc = "done", !.tried = tried]
                    @@ [outcome |-> Return(Strip(reply.text))]
               ELSE [generate_call EXCEPT !.tried = tried]
    /\ UNCHANGED <<spray_call, plan_call, enrich_call, http_vars>>

\* raise RuntimeError(...) after the loop
GenerateRaise ==
    /\ generate_call.pc = "loop"
    /\ Len(generate_call.tried) = Len(MODELS_TO_TRY)
    /\ generate_call' = [generate_call EXCEPT !.pc = "done"]
                        @@ [outcome |-> Raise("RuntimeError")]
    /\ UNCHANGED <<spray_call, plan_call, enrich_call, http_vars>>

InitGenerate ==
    /\ spray_call = NoCall
    /\ plan_call = NoCall
    /\ enrich_call = NoCall
    /\ generate_call \in GenerateCalls
    /\ HttpIdle

NextGenerate == GenerateStart \/ GenerateTry \/ GenerateRaise

\* the function runs on once it is called
SpecGenerate == InitGenerate /\ [][NextGenerate]_vars /\ WF_vars(NextGenerate)


(***************************************************************************)
(* POST /api/auth/recommend, with every behaviour of the AI collaborator.  *)
(***************************************************************************)
\* "Drip"
S_Drip ==
    <<"D", "r", "i", "p">>
\* "Rotate crops."
S_Rotate_crops ==
    <<"R", "o", "t", "a", "t", "e", " ", "c", "r", "o", "p", "s", ".">>
\* "Millet"
S_Millet ==
    <<"M", "i", "l", "l", "e", "t">>

\* the profiles: soil type and irrigation not filled in, blank, or given
RecommendProfiles ==
    [soil_type : {PyNone, PyStr(S_empty), PyStr(S_Clay_Loam)},
     irrigation : {PyNone, PyStr(S_empty), PyStr(S_Drip)}]

\* the requests: without a session, from a user without a profile, from a user with one
RecommendRequests ==
    {[sent |-> TRUE, route |-> "/api/auth/recommend", logged_in |-> FALSE,
      profile |-> PyNone]}
    \cup {[sent |-> TRUE, route |-> "/api/auth/recommend", logged_in |-> TRUE,
           profile |-> p] : p \in {PyNone} \cup RecommendProfiles}

\* what re.search and json.loads make of a model's reply to the prompt
RecommendReplies ==
    {[json |-> "none"], [json |-> "invalid"]} \cup
    {[json |-> "object", result |-> d] : d \in
        {[sustainability_tip |-> PyStr(S_Rotate_crops)],
         [top_crops |-> PyList(<<[name |-> PyStr(S_Millet),
                                  suitability_score |-> PyInt(90)]>>)]}}

RecommendBehaviours ==
    {GeminiAnswersAfter(failing, reply) :
        failing \in 0..(Len(MODELS_TO_TRY) - 1), reply \in RecommendReplies}
    \cup {[i \in 1..Len(MODELS_TO_TRY) |-> [ok |-> FALSE]]}

\* the request gets as far as _generate_with_fallback's loop
AsksRecommendation(req) == req.logged_in /\ req.profile # PyNone /\ gemini_available

\* the answer to req, run being what recommend did
AnswerRecommend(req, run) ==
    /\ request' = req
    /\ response' = run.response
    /\ trace' = run.calls
    /\ UNCHANGED <<records, clock, gemini_available, pure_vars>>

\* the client is set exactly when GEMINI_API_KEY was there at start-up, which is what
\* _gemini_available records
PostRecommend ==
    \E req \in RecommendRequests :
        \E gemini \in IF AsksRecommendation(req) THEN RecommendBehaviours ELSE {NotAsked} :
            AnswerRecommend(req, recommend(req, gemini_available, gemini_available, gemini))

InitRecommend ==
    /\ spray_call = NoCall
    /\ plan_call = NoCall
    /\ enrich_call = NoCall
    /\ generate_call = NoCall
    /\ gemini_available \in BOOLEAN
    /\ records = <<>>
    /\ clock = 0
    /\ request = NoRequest
    /\ response = NoResponse
    /\ trace = <<>>

NextRecommend == PostRecommend

SpecRecommend == InitRecommend /\ [][NextRecommend]_vars


\* C1: whenever rain_prob > 0.50 or wind_kmh > 25.0 the classifier returns "red",
\* whatever the other input is.
C1_RedHasPriority ==
    (spray_call.called /\ (spray_call.rain_prob > 500 \/ spray_call.wind_kmh > 2500))
        => spray_call.result.status = S_red

\* a call with one input over its red threshold and the other inside the green range
C1_Witness ==
    /\ spray_call.called
    /\ spray_call.rain_prob > 500
    /\ spray_call.wind_kmh <= 1500
    /\ spray_call.result.status = S_red

C4_TimingFollowsSprayStatus ==
    LET disease == Get(plan_call.diagnosis, "disease_name", PyStr(S_Unknown))
        status_value == Get(plan_call.weather, "spray_status", PyStr(S_unknown))
    IN  (/\ plan_call.called
         /\ disease \notin {PyStr(S_Yield_Estimation), PyStr(S_Soil_Analysis)}
         /\ IsStr(status_value))
        =>
        LET status == Lower(status_value.s)
            expected == IF status = S_green THEN S_timing_green
                        ELSE IF status = S_yellow THEN S_timing_yellow
                        ELSE S_timing_red
            plan == plan_call.result.value
        IN  /\ ~plan_call.result.raised
            /\ Contains(plan, S_advisory \o expected \o S_treatment)
            /\ \A other \in {S_timing_green, S_timing_yellow, S_timing_red} \ {expected} :
                   ~Contains(plan, other)
            /\ Contains(plan, Str(disease))
            /\ Contains(plan, Str(Get(plan_call.diagnosis, "severity_score", PyInt(0)))
                              \o S_percent)
            /\ Contains(plan, Str(Get(plan_call.weather, "status_reason", PyStr(S_empty))))
            /\ Contains(plan, Str(Get(plan_call.diagnosis, "treatment_advice",
                                      PyStr(S_empty))))

\* a standard diagnosis with spray_status "GREEN" in upper case gets the
\* spray-immediately text
C4_Witness ==
    /\ plan_call.called
    /\ Get(plan_call.diagnosis, "disease_name", Absent) = PyStr(S_Late_Blight)
    /\ Get(plan_call.diagnosis, "severity_score", Absent) = PyInt(70)
    /\ Get(plan_call.weather, "spray_status", Absent) = PyStr(S_GREEN)
    /\ ~plan_call.result.raised
    /\ Contains(plan_call.result.value, S_Spray_immediately)
    /\ Contains(plan_call.result.value, S_Late_Blight)

\* C5: for disease_name "Yield Estimation" the plan is "YIELD REPORT: <yield_estimate>."
\* followed by the market_advice (default "Check market prices."), for "Soil Analysis"
\* it is the "SOIL REPORT:" sentence built from soil_type, moisture_level and
\* treatment_advice; for every weather mapping the call returns that string, which
\* depends on the diagnosis only.
C5_ReportsDependOnDiagnosisOnly ==
    LET d == plan_call.diagnosis
        disease == Get(d, "disease_name", PyStr(S_Unknown))
    IN  /\ (plan_call.called /\ disease = PyStr(S_Yield_Estimation)) =>
               /\ ~plan_call.result.raised
               /\ plan_call.result.value =
                      S_yield_report \o Str(Get(d, "yield_estimate", PyStr(S_NA)))
                      \o S_harvest_advice
                      \o Str(Get(d, "market_advice", PyStr(S_check_market)))
        /\ (plan_call.called /\ disease = PyStr(S_Soil_Analysis)) =>
               /\ ~plan_call.result.raised
               /\ plan_call.result.value =
                      S_soil_report \o Str(Get(d, "soil_type", PyStr(S_NA)))
                      \o S_moisture \o Str(Get(d, "moisture_level", PyStr(S_NA)))
                      \o S_recommendation
                      \o Str(Get(d, "treatment_advice", PyStr(S_empty)))

\* C6: build_execution_plan never raises: for every diagnosis mapping and every weather
\* mapping, with fields missing or of an unexpected type (null spray_status included),
\* the call returns a string.
C6_PlanNeverRaises ==
    plan_call.called => ~plan_call.result.raised

\* the calls of the handled request that went to `callee`
TraceCalls(callee) == {i \in 1..Len(trace) : trace[i].call = callee}

\* the row inserted last
LastRecord == records[Len(records)]

\* C7: POST /analyze without an image part answers 400 with type "validation_error",
\* leaves the stored records as they were and calls no collaborator.
C7_NoImageIsValidationError ==
    [][(request'.sent /\ ~request'.has_image) =>
           /\ response'.status = 400
           /\ response'.body.type = "validation_error"
           /\ response'.body.error = S_No_image
           /\ records' = records
           /\ trace' = <<>>]_vars

\* a request without image was refused while the table held a record
C7_Witness ==
    /\ request.sent
    /\ ~request.has_image
    /\ response.status = 400
    /\ response.body.type = "validation_error"
    /\ Len(records) = 1
    /\ trace = <<>>

\* a form field that carries a decimal number
SuppliedDecimal(field) == field \in DOMAIN request.form /\ IsDecimal(request.form[field].s)

\* C8: whenever both lat and lon are supplied as parseable decimal values, zero
\* included, the request asks the weather collaborator for a forecast.
C8_ForecastWheneverBothSupplied ==
    (/\ request.sent
     /\ request.has_image
     /\ SuppliedDecimal("lat")
     /\ SuppliedDecimal("lon"))
    => TraceCalls("fetch_weather_forecast") # {}

\* a form field that is missing or blank
Omitted(field) == ~Truthy(Get(request.form, field, PyNone))

\* C9: when lat or lon is omitted no weather call goes out, neither to the weather
\* collaborator nor to Open-Meteo, and the advisory of a successful response and of
\* the stored record is spray_status "unknown", status_reason "No GPS location provided".
C9_OmittedCoordinatesSkipWeather ==
    (request.sent /\ (Omitted("lat") \/ Omitted("lon")))
    =>
    /\ TraceCalls("fetch_weather_forecast") = {}
    /\ TraceCalls("openweathermap") = {}
    /\ TraceCalls("open-meteo") = {}
    /\ response.status = 200 =>
           LET advisory == [spray_status |-> PyStr(S_unknown),
                            status_reason |-> PyStr(S_No_GPS)]
           IN  /\ response.body.weather = advisory
               /\ LastRecord.id = response.body.scan_id
               /\ LastRecord.spray_status = PyStr(S_unknown)
               /\ LastRecord.weather_summary = JsonDumpsDict(advisory)

\* a scan with lon given and lat missing was stored with the unknown advisory
C9_Witness ==
    /\ request.sent
    /\ "lat" \notin DOMAIN request.form
    /\ Get(request.form, "lon", PyNone) = PyStr(S_lon_77_2)
    /\ response.status = 200
    /\ response.body.weather["status_reason"] = PyStr(S_No_GPS)
    /\ LastRecord.spray_status = PyStr(S_unknown)
    /\ \A i \in 1..Len(trace) : trace[i].call \in {"analyze_crop_image", "gemini"}

\* the forecast call of the handled request raised
ForecastFailed ==
    \E i \in TraceCalls("fetch_weather_forecast") : trace[i].raised

C11_EnrichKeepsPresentFields ==
    (enrich_call.called /\ ~enrich_call.result.raised) =>
        LET before == enrich_call.weather
            after == enrich_call.result.value
        IN  /\ \A f \in EnrichFields \cap DOMAIN before : after[f] = before[f]
            /\ ("spray_status" \in DOMAIN before
                    /\ Lower(before["spray_status"].s) \in {S_green, S_yellow, S_red})
                => /\ after["spray_status"] = PyStr(Lower(before["spray_status"].s))
                   /\ \A f \in {"status_reason"} \cap DOMAIN before : after[f] = before[f]
            /\ "spray_status" \in DOMAIN after
                => after["spray_status"].s = Lower(after["spray_status"].s)

\* analyze_crop_image was called by the handled request, and it raised
VisionRaised == \E i \in TraceCalls("analyze_crop_image") : trace[i].raised

\* the row stores the diagnosis d
StoresDiagnosis(row, d) ==
    /\ row.disease_name = d.disease_name
    /\ row.severity_score = d.severity_score
    /\ row.symptoms = JsonDumps(d.symptoms)
    /\ row.treatment_advice = d.treatment_advice

\* C12: when the vision collaborator is unavailable or analyze_crop_image raises, the
\* diagnosis returned and stored is get_demo_diagnosis() and demo_mode is true; demo_mode
\* is true only with that payload, and false with the diagnosis a model replied.
C12_DemoWhenVisionFails ==
    (request.sent /\ response.status = 200) =>
        /\ (~gemini_available \/ VisionRaised) =>
               /\ response.body.diagnosis = get_demo_diagnosis
               /\ response.body.demo_mode
               /\ LastRecord.id = response.body.scan_id
               /\ StoresDiagnosis(LastRecord, get_demo_diagnosis)
        /\ response.body.demo_mode => response.body.diagnosis = get_demo_diagnosis
        /\ ~response.body.demo_mode =>
               \E i \in TraceCalls("gemini") :
                   /\ trace[i].reply.ok
                   /\ trace[i].reply.reply.json = "object"
                   /\ trace[i].reply.reply.result = response.body.diagnosis

\* all three models failed and the demo diagnosis was returned and stored
C12_Witness ==
    /\ request.sent
    /\ gemini_available
    /\ VisionRaised
    /\ Cardinality(TraceCalls("gemini")) = 3
    /\ response.status = 200
    /\ response.body.demo_mode
    /\ response.body.diagnosis = get_demo_diagnosis
    /\ StoresDiagnosis(LastRecord, get_demo_diagnosis)

\* an error sentinel: disease_name empty, or disease_name / treatment_advice holding
\* one of the fixed substrings
ErrorSentinel(result) ==
    \/ Str(Get(result, "disease_name", PyStr(S_empty))) = S_empty
    \/ \E sig \in {S_sig_analysis_error, S_sig_api_key, S_sig_internet, S_sig_quota} :
           \/ Contains(Lower(Str(Get(result, "disease_name", PyStr(S_empty)))), sig)
           \/ Contains(Lower(Str(Get(result, "treatment_advice", PyStr(S_empty)))), sig)

\* the calls of the handled request that a model answered with an error sentinel
SentinelReplies ==
    {i \in TraceCalls("gemini") :
        /\ trace[i].reply.ok
        /\ trace[i].reply.reply.json = "object"
        /\ ErrorSentinel(trace[i].reply.reply.result)}

\* C13: a vision response that is an error sentinel is never returned or stored as the
\* diagnosis: the demo diagnosis takes its place, demo_mode is true, and no model is
\* called after the sentinel was received.
C13_SentinelReplacedByDemo ==
    (request.sent /\ SentinelReplies # {}) =>
        /\ response.status = 200
        /\ response.body.diagnosis = get_demo_diagnosis
        /\ response.body.demo_mode
        /\ LastRecord.id = response.body.scan_id
        /\ StoresDiagnosis(LastRecord, get_demo_diagnosis)
        /\ Cardinality(TraceCalls("analyze_crop_image")) = 1
        /\ \A i \in SentinelReplies : \A k \in TraceCalls("gemini") : k <= i

\* the first model answered with "Quota exceeded" in treatment_advice, and the demo
\* diagnosis was stored
C13_Witness ==
    /\ request.sent
    /\ \E i \in SentinelReplies :
           /\ trace[i].model = MODELS_TO_TRY[1]
           /\ Get(trace[i].reply.reply.result, "treatment_advice", PyNone)
                  = PyStr(S_Quota_exceeded)
    /\ Cardinality(TraceCalls("gemini")) = 1
    /\ response.status = 200
    /\ response.body.demo_mode
    /\ StoresDiagnosis(LastRecord, get_demo_diagnosis)

\* C14: a POST /analyze makes at most two outbound network calls, one to the vision
\* collaborator and then one to the weather collaborator; a failed call is not repeated
\* against another model or another endpoint.
C14_AtMostTwoOutboundCalls ==
    request.sent =>
        /\ Cardinality(TraceCalls("gemini")) <= 1
        /\ Cardinality(TraceCalls("openweathermap") \cup TraceCalls("open-meteo")) <= 1
        /\ \A i \in TraceCalls("gemini") :
               \A k \in TraceCalls("openweathermap") \cup TraceCalls("open-meteo") : i < k

\* the form field is absent, blank or a decimal number
AbsentOrDecimal(req, field) ==
    \/ field \notin DOMAIN req.form
    \/ req.form[field].s = S_empty
    \/ IsDecimal(req.form[field].s)

\* C15: collaborator failures never surface as request-level errors: a POST /analyze
\* with an image and parseable or absent coordinates ends with a 200 response and
\* exactly one new ScanRecord, whatever the collaborators do.
C15_CollaboratorFailuresAbsorbed ==
    [][(/\ request'.sent
        /\ request'.has_image
        /\ AbsentOrDecimal(request', "lat")
        /\ AbsentOrDecimal(request', "lon"))
       => /\ response'.status = 200
          /\ Len(records') = Len(records) + 1]_vars

\* C16: POST /analyze answers 400 "validation_error" if and only if the image is
\* missing; every other failure is a 500 "server_error" with the generic message.
C16_ValidationErrorOnlyForMissingImage ==
    request.sent =>
        /\ (response.status = 400) <=> ~request.has_image
        /\ response.status # 200 =>
               /\ response.body.type = "validation_error" <=> ~request.has_image
               /\ request.has_image =>
                      /\ response.status = 500
                      /\ response.body.type = "server_error"
                      /\ response.body.error = S_Server_error

\* the four values of spray_status
SprayStatusValues == {PyStr(S_green), PyStr(S_yellow), PyStr(S_red), PyStr(S_unknown)}

\* C17: in every reachable state the spray_status of the weather advisory returned by
\* POST /analyze and of every stored ScanRecord is one of "green", "yellow", "red",
\* "unknown", in lowercase.
C17_SprayStatusIsOneOfFour ==
    /\ (request.sent /\ response.status = 200) =>
           /\ "spray_status" \in DOMAIN response.body.weather
           /\ response.body.weather["spray_status"] \in SprayStatusValues
    /\ \A i \in 1..Len(records) : records[i].spray_status \in SprayStatusValues

\* the forecast failed, Open-Meteo answered, and the status derived from its values was
\* returned and stored
C17_Witness ==
    /\ request.sent
    /\ response.status = 200
    /\ ForecastFailed
    /\ \E i \in TraceCalls("open-meteo") : trace[i].ok
    /\ response.body.weather["spray_status"] = PyStr(S_red)
    /\ LastRecord.id = response.body.scan_id
    /\ LastRecord.spray_status = PyStr(S_red)

\* C19: the reason names exactly the thresholds exceeded.  For red (yellow) it holds the
\* rain part iff rain_prob > 0.50 (0.20) and the wind part iff wind_kmh > 25.0 (15.0),
\* with " | " between them when both are there, and one of them is always there; for
\* green it reports both the rain probability and the wind speed.
C19_ReasonNamesExceededThresholds ==
    spray_call.called =>
        LET r == spray_call.rain_prob
            w == spray_call.wind_kmh
            reason == spray_call.result.reason
            rain_pct == RainPctStr(r) \o S_percent
            wind_kmh == WindStr(w) \o S_kmh
            HasBoth(rain_part, wind_part) == Contains(reason, rain_part \o S_join \o wind_part)
        IN  /\ spray_call.result.status = S_red =>
                   /\ Contains(reason, S_high_rain \o rain_pct) <=> r > 500
                   /\ Contains(reason, S_wind_too_high \o wind_kmh) <=> w > 2500
                   /\ HasBoth(S_high_rain \o rain_pct, S_wind_too_high \o wind_kmh)
                          <=> (r > 500 /\ w > 2500)
                   /\ Contains(reason, S_join) <=> (r > 500 /\ w > 2500)
                   /\ Contains(reason, S_high_rain) \/ Contains(reason, S_wind_too_high)
            /\ spray_call.result.status = S_yellow =>
                   /\ Contains(reason, S_moderate_rain \o rain_pct) <=> r > 200
                   /\ Contains(reason, S_moderate_wind \o wind_kmh) <=> w > 1500
                   /\ HasBoth(S_moderate_rain \o rain_pct, S_moderate_wind \o wind_kmh)
                          <=> (r > 200 /\ w > 1500)
                   /\ Contains(reason, S_join) <=> (r > 200 /\ w > 1500)
                   /\ Contains(reason, S_moderate_rain) \/ Contains(reason, S_moderate_wind)
            /\ spray_call.result.status = S_green =>
                   /\ Contains(reason, RainPctStr(r) \o S_green_wind \o wind_kmh)
                   /\ StartsWith(reason, S_green_prefix)

\* a red call with both thresholds exceeded, and a reason naming both
C19_Witness ==
    /\ spray_call.called
    /\ spray_call.rain_prob > 500
    /\ spray_call.wind_kmh > 2500
    /\ spray_call.result.status = S_red
    /\ Contains(spray_call.result.reason, S_high_rain)
    /\ Contains(spray_call.result.reason, S_join \o S_wind_too_high)

\* C18: a ScanRecord is created exactly once per successful POST /analyze and never
\* updated or deleted.  Every step of the server keeps each stored row as it is; a step
\* that answers /analyze with 200 appends exactly one row, whose id is the scan_id
\* returned and differs from every id stored before; every other step (a failed
\* /analyze, /api/scans, /report/<id>, /history, /api/chat) leaves the table as it is.
\* Starting from the empty table, the number of rows is therefore the number of 200
\* responses of /analyze.
C18_RecordsCreatedOnceAndKept ==
    [][/\ Len(records') >= Len(records)
       /\ \A i \in 1..Len(records) : records'[i] = records[i]
       /\ \A i, k \in 1..Len(records') : records'[i].id = records'[k].id => i = k
       /\ IF request'.route = "/analyze" /\ response'.status = 200
          THEN /\ Len(records') = Len(records) + 1
               /\ records'[Len(records')].id = response'.body.scan_id
               /\ \A i \in 1..Len(records) : records[i].id # response'.body.scan_id
          ELSE records' = records]_vars

\* two scans are stored under different ids, and a report was served afterwards
C18_Witness ==
    /\ Len(records) = 2
    /\ records[1].id # records[2].id
    /\ request.sent
    /\ request.route = "/report"
    /\ response.status = 200
    /\ response.body.passport.id = records[2].id

\* C20: GET /api/scans returns at most 500 rows, the most recent ones by timestamp,
\* newest first; with more than 500 rows stored no returned row is older than a row left
\* out; count is the number of rows returned.
C20_ScansNewestFirstUpTo500 ==
    (request.sent /\ request.route = "/api/scans") =>
        LET scans == response.body.scans
            returned == {scans[k].id : k \in 1..Len(scans)}
            row == [id \in returned |->
                       records[CHOOSE i \in 1..Len(records) : records[i].id = id]]
            left_out == {i \in 1..Len(records) : records[i].id \notin returned}
        IN  /\ response.status = 200
            /\ response.body.count = Len(scans)
            /\ Len(scans) <= 500
            /\ Len(scans) = IF Len(records) < 500 THEN Len(records) ELSE 500
            /\ Cardinality(returned) = Len(scans)
            /\ \A k \in 1..Len(scans) : scans[k] = to_dict(row[scans[k].id])
            /\ \A k \in 1..(Len(scans) - 1) :
                   row[scans[k].id].timestamp >= row[scans[k + 1].id].timestamp
            /\ \A i \in left_out : \A id \in returned :
                   records[i].timestamp <= row[id].timestamp

\* 502 rows are stored, the two written first carry the latest timestamps; 500 rows
\* were returned, the second row first, and the oldest two were left out
C20_Witness ==
    /\ request.sent
    /\ request.route = "/api/scans"
    /\ Len(records) = 502
    /\ records[2].timestamp = 502
    /\ response.body.count = 500
    /\ response.body.scans[1].id = 2
    /\ response.body.scans[500].id = 5
    /\ \A k \in 1..500 : response.body.scans[k].id \notin {3, 4}

ChatAnswered == \E i \in TraceCalls("gemini") : trace[i].reply.ok

\* C22: POST /api/chat always answers 200 with a non-empty reply: the text of the model
\* when a model answers, and the fixed demo string whenever the AI collaborator is
\* unavailable, be it not initialised at start-up or failing for this request.
C22_ChatRepliesOrDemo ==
    (request.sent /\ request.route = "/api/chat") =>
        /\ response.status = 200
        /\ response.body.reply # S_empty
        /\ (~gemini_available \/ ~ChatAnswered) => response.body.reply = S_chat_demo
        /\ \A i \in TraceCalls("gemini") :
               (trace[i].reply.ok /\ trace[i].reply.reply # S_empty) =>
                   response.body.reply = trace[i].reply.reply

GenerateDone == generate_call.called /\ generate_call.pc = "done"

\* the models are called in list order
TriedInListOrder ==
    generate_call.tried = SubSeq(MODELS_TO_TRY, 1, Len(generate_call.tried))

\* what the handlers' summary of the function is given for the same behaviour
GeminiSummary ==
    [i \in 1..Len(MODELS_TO_TRY) |->
        IF generate_call.gemini[i].kind = "text"
        THEN [ok |-> TRUE, reply |-> Strip(generate_call.gemini[i].text)]
        ELSE [ok |-> FALSE]]

ParsedFromReply ==
    \E i \in TraceCalls("gemini") :
        trace[i].reply.ok /\ trace[i].reply.reply.json = "object"

\* C25: POST /api/auth/recommend of a logged-in user with a profile always answers 200
\* with success; "demo" is true exactly when the recommendation is the one of
\* _demo_recommendation (the AI call failed, or its reply held no parseable JSON object)
\* and false exactly when the recommendation was parsed from the AI's reply.
C25_DemoFlagTellsDemoRecommendation ==
    (/\ request.sent
     /\ request.route = "/api/auth/recommend"
     /\ request.logged_in
     /\ request.profile # PyNone) =>
        /\ response.status = 200
        /\ response.body.success
        /\ response.body.demo <=> ~ParsedFromReply
        /\ ~ParsedFromReply =>
               response.body.recommendation =
                   _demo_recommendation(ProfileContext(request.profile))
        /\ ParsedFromReply =>
               \E i \in TraceCalls("gemini") :
                   /\ trace[i].reply.ok
                   /\ response.body.recommendation = trace[i].reply.reply.result

====
